---------------------------- MODULE Spec2Model ----------------------------
(***************************************************************************)
(* Model of the caching and batch-ordering core of ngx-media-optimizer:    *)
(*   - LRUCache<K,V>            (shared/lru-cache)                          *)
(*   - ImageUtilsService        (image-utils.service.ts): cache key and    *)
(*                              the four memoised analyses                 *)
(*   - ImageHelpers             (shared/image-helpers.ts): batch order     *)
(*   - ImageConverterService    (media-optimizer.service.ts): the batch    *)
(*                              pipeline, its records and abortProcessing, *)
(*                              the store of records, its listeners and    *)
(*                              the blob URLs of the records               *)
(*                                                                         *)
(* A JavaScript Map is a sequence of [key, value] records in insertion     *)
(* order.  A value that may be `undefined` is a sequence of length 0       *)
(* (undefined) or 1 (a defined value), so that tests such as               *)
(* `value !== undefined` and `if (cached)` are modelled as the code        *)
(* evaluates them.  Strings that are built or compared character by        *)
(* character (file names, cache keys) are sequences of one-character       *)
(* strings.                                                                *)
(***************************************************************************)
EXTENDS Integers, Sequences, FiniteSets, TLC

(***************************************************************************)
(* Bounds                                                                  *)
(***************************************************************************)
\* largest capacity of the stand-alone LRUCache that is explored with every
\* sequence of calls
MaxCap == 2

\* keys and values offered to a stand-alone LRUCache of capacity 1..MaxCap
LruKeys == {1, 2, 3, 4}
LruValues == {"v1", "v2"}

\* longest file name offered to getCacheKey
MaxNameLen == 2

\* characters of file names; sizes and timestamps of files
NameChars == {"a", "-", "1"}
FileSizes == {0, 1, 11}
FileTimes == {-1, 0, 1, 11}

\* calls on the ImageUtilsService that may overlap
MaxCalls == 2

\* longest array passed to optimizeBatchOrder, and its elements
MaxBatch == 3
BatchFiles == [name : {"x", "y"}, size : {100, 200}]

\* batches accepted by one ImageConverterService
MaxBatches == 2

\* largest concurrency option given to convertFormat and compressImages
MaxConcurrency == 2

\* number of callbacks handed to onImagesChange
MaxListeners == 2

(***************************************************************************)
(* JavaScript values                                                       *)
(***************************************************************************)
Undefined == << >>
Some(v) == << v >>

(***************************************************************************)
(* Map<K,V>: insertion-ordered sequence of entries                         *)
(***************************************************************************)
MapKeys(m) == { m[i].key : i \in 1..Len(m) }

MapHas(m, k) == \E i \in 1..Len(m) : m[i].key = k

MapIndex(m, k) == CHOOSE i \in 1..Len(m) : m[i].key = k

\* Map.prototype.get: the value, or undefined when the key is absent
MapGet(m, k) == IF MapHas(m, k) THEN Some(m[MapIndex(m, k)].value) ELSE Undefined

\* Map.prototype.delete
MapDelete(m, k) == SelectSeq(m, LAMBDA e : e.key # k)

\* Map.prototype.set: an existing key keeps its position, a new key is appended
MapSet(m, k, v) ==
  IF MapHas(m, k)
    THEN [i \in 1..Len(m) |-> IF m[i].key = k THEN [key |-> k, value |-> v] ELSE m[i]]
    ELSE Append(m, [key |-> k, value |-> v])

\* map.keys().next().value
MapFirstKey(m) == IF Len(m) = 0 THEN Undefined ELSE Some(m[1].key)

(***************************************************************************)
(* LRUCache<K,V>                                                           *)
(***************************************************************************)
\* get without the move-to-end: recency would be insertion order (FIFO)
LRUGetNoPromote(m, k) == [cache |-> m, ret |-> MapGet(m, k)]

\* LRUCache.get: [cache after the call, returned value]
LRUGet(m, k) ==
  LET value == MapGet(m, k)
  IN IF value # Undefined
       THEN [cache |-> MapSet(MapDelete(m, k), k, value[1]), ret |-> value]
       ELSE [cache |-> m, ret |-> Undefined]

\* set that never evicts
LRUSetNoEvict(m, cap, k, v) == MapSet(MapDelete(m, k), k, v)

\* set that overwrites an existing key in place, without refreshing its position
LRUSetInPlace(m, cap, k, v) ==
  IF MapHas(m, k) THEN MapSet(m, k, v)
  ELSE IF Len(m) >= cap /\ MapFirstKey(m) # Undefined
         THEN MapSet(MapDelete(m, MapFirstKey(m)[1]), k, v)
         ELSE MapSet(m, k, v)

\* LRUCache.set: the cache after the call
LRUSet(m, cap, k, v) ==
  LET afterDelete ==
        IF MapHas(m, k)
          THEN MapDelete(m, k)
          ELSE IF Len(m) >= cap
                 THEN LET firstKey == MapFirstKey(m)
                      IN IF firstKey # Undefined THEN MapDelete(m, firstKey[1]) ELSE m
                 ELSE m
  IN MapSet(afterDelete, k, v)

\* has implemented through get, which refreshes the position
LRUHasPromote(m, k) == [cache |-> LRUGet(m, k).cache, ret |-> MapHas(m, k)]

\* LRUCache.has: [cache after the call, returned value]
LRUHas(m, k) == [cache |-> m, ret |-> MapHas(m, k)]

\* LRUCache.clear
LRUClear(m) == << >>

\* LRUCache.size
LRUSize(m) == Len(m)

(***************************************************************************)
(* ImageUtilsService.getCacheKey                                           *)
(***************************************************************************)
DigitChar(d) == << "0", "1", "2", "3", "4", "5", "6", "7", "8", "9" >>[d + 1]

RECURSIVE Digits(_)
Digits(n) == IF n < 10 THEN << DigitChar(n) >>
             ELSE Digits(n \div 10) \o << DigitChar(n % 10) >>

\* Number.prototype.toString of an integer, as the template literal applies it
NumberToString(n) == IF n < 0 THEN << "-" >> \o Digits(-n) ELSE Digits(n)

\* the three parts joined without a separator
getCacheKeyNoSeparator(file) ==
  file.name \o NumberToString(file.size) \o NumberToString(file.lastModified)

\* `${file.name}-${file.size}-${file.lastModified}`
getCacheKey(file) ==
  file.name \o << "-" >> \o NumberToString(file.size)
            \o << "-" >> \o NumberToString(file.lastModified)

(***************************************************************************)
(* ImageHelpers.optimizeBatchOrder                                         *)
(***************************************************************************)
\* the comparator (a, b) => a.size - b.size
CompareSize(a, b) == a.size - b.size

\* insert x behind every element that does not compare greater than it
RECURSIVE InsertSorted(_, _)
InsertSorted(s, x) ==
  IF s = << >> THEN << x >>
  ELSE IF CompareSize(s[1], x) <= 0 THEN << s[1] >> \o InsertSorted(Tail(s), x)
  ELSE << x >> \o s

\* Array.prototype.sort with the comparator above: a stable sort (ECMAScript 2019)
RECURSIVE ArraySort(_)
ArraySort(s) ==
  IF s = << >> THEN << >>
  ELSE InsertSorted(ArraySort(SubSeq(s, 1, Len(s) - 1)), s[Len(s)])

\* an order that is the caller's
optimizeBatchOrderAsGiven(fs) == [input |-> fs, ret |-> fs]

\* an order with the largest file first
optimizeBatchOrderDescending(fs) ==
  [input |-> fs,
   ret |-> [i \in 1..Len(fs) |-> ArraySort(fs)[Len(fs) + 1 - i]]]

\* sort without the copy: the caller's array is sorted in place
optimizeBatchOrderInPlace(fs) ==
  [input |-> ArraySort(fs), ret |-> ArraySort(fs)]

\* files.slice().sort(...): [the caller's array after the call, the returned array]
optimizeBatchOrder(fs) ==
  [input |-> fs, ret |-> ArraySort(fs)]

(***************************************************************************)
(* ImageUtilsService: constants, cache tests and handlers                  *)
(***************************************************************************)
DIMENSIONS_CACHE_SIZE == 100
INFO_CACHE_SIZE == 50
TRANSPARENCY_CACHE_SIZE == 100
DOMINANT_COLOR_CACHE_SIZE == 50
MAX_SAFE_SIZE_MB == 50

\* `if (cached)` on an object or undefined
TruthyObject(x) == x # Undefined

\* `if (cached)` on a string or undefined
TruthyString(x) == x # Undefined /\ x[1] # ""

\* a truthiness test on the cached boolean: a cached false counts as a miss
transparencyCacheHitTruthy(cached) == cached # Undefined /\ cached[1]

\* `if (cached !== undefined)` of hasTransparency
transparencyCacheHit(cached) == cached # Undefined

\* ImageHelpers.detectImageFormat
detectImageFormat(mimeType) ==
  IF mimeType = "image/avif" THEN "avif"
  ELSE IF mimeType = "image/webp" THEN "webp"
  ELSE IF mimeType = "image/png" THEN "png"
  ELSE "jpeg"

\* ImageHelpers.calculateGCD
RECURSIVE calculateGCD(_, _)
calculateGCD(a, b) == IF b = 0 THEN a ELSE calculateGCD(b, a % b)

\* the ImageInfo that getImageInfo builds (formattedSize and aspectRatio are
\* functions of size, width and height and are left out)
BuildImageInfo(file, dimensions) ==
  LET gcd == calculateGCD(dimensions.width, dimensions.height)
  IN [name |-> file.name, size |-> file.size,
      format |-> detectImageFormat(file.type),
      width |-> dimensions.width, height |-> dimensions.height,
      aspectRatioString |-> << dimensions.width \div gcd, dimensions.height \div gcd >>]

\* getImageDimensions up to its first await: the cache lookup
DimsEnter(dc, file) ==
  LET r == LRUGet(dc, getCacheKey(file))
  IN [cache |-> r.cache, cached |-> r.ret]

\* getImageDimensions after extractDimensionsFromMetadata has answered
\* (metadataDims is undefined for null)
DimsOnMetadata(dc, file, metadataDims) ==
  IF metadataDims # Undefined
    THEN [cache |-> LRUSet(dc, DIMENSIONS_CACHE_SIZE, getCacheKey(file), metadataDims[1]),
          settle |-> "resolved", value |-> metadataDims]
  ELSE IF file.size > MAX_SAFE_SIZE_MB * 1024 * 1024
    THEN [cache |-> dc, settle |-> "rejected", value |-> Undefined]
  ELSE [cache |-> dc, settle |-> "load", value |-> Undefined]

\* an error handler that caches an empty result before rejecting
DimsOnLoadCachesFailure(dc, file, loaded) ==
  IF loaded # Undefined
    THEN [cache |-> LRUSet(dc, DIMENSIONS_CACHE_SIZE, getCacheKey(file), loaded[1]),
          settle |-> "resolved", value |-> loaded]
    ELSE [cache |-> LRUSet(dc, DIMENSIONS_CACHE_SIZE, getCacheKey(file),
                           [width |-> 0, height |-> 0]),
          settle |-> "rejected", value |-> Undefined]

\* an onload handler that leaves the entry of an earlier call alone
DimsOnLoadKeepsFirst(dc, file, loaded) ==
  IF loaded # Undefined
    THEN [cache |-> IF MapHas(dc, getCacheKey(file)) THEN dc
                    ELSE LRUSet(dc, DIMENSIONS_CACHE_SIZE, getCacheKey(file), loaded[1]),
          settle |-> "resolved", value |-> loaded]
    ELSE [cache |-> dc, settle |-> "rejected", value |-> Undefined]

\* getImageDimensions when the Image settles: img.onload (loaded is the size
\* read from the image) or img.onerror / the load timeout (loaded undefined)
DimsOnLoad(dc, file, loaded) ==
  IF loaded # Undefined
    THEN [cache |-> LRUSet(dc, DIMENSIONS_CACHE_SIZE, getCacheKey(file), loaded[1]),
          settle |-> "resolved", value |-> loaded]
    ELSE [cache |-> dc, settle |-> "rejected", value |-> Undefined]

\* getImageInfo after the dimensions are known
InfoFinish(ic, file, dimensions) ==
  LET result == BuildImageInfo(file, dimensions)
  IN [cache |-> LRUSet(ic, INFO_CACHE_SIZE, getCacheKey(file), result), value |-> result]

\* a catch block that remembers the fallback
TransparencyCatchCachesDefault(tc, file) ==
  [cache |-> LRUSet(tc, TRANSPARENCY_CACHE_SIZE, getCacheKey(file), FALSE), value |-> FALSE]

\* hasTransparency: the catch block
TransparencyCatch(tc, file) == [cache |-> tc, value |-> FALSE]

\* hasTransparency: the pixel scan has found (or not found) an alpha below 255
TransparencyFinish(tc, file, hasAlpha) ==
  [cache |-> LRUSet(tc, TRANSPARENCY_CACHE_SIZE, getCacheKey(file), hasAlpha),
   value |-> hasAlpha]

\* getDominantColor: the catch block
DominantColorCatch(cc, file) == [cache |-> cc, value |-> "#000000"]

\* getDominantColor: extractDominantColorMedianCut has returned hex
DominantColorFinish(cc, file, hex) ==
  [cache |-> LRUSet(cc, DOMINANT_COLOR_CACHE_SIZE, getCacheKey(file), hex), value |-> hex]

\* clearCache that forgets the info cache
clearCacheKeepsInfo(dc, ic, tc, cc) ==
  [dimensions |-> LRUClear(dc), info |-> ic,
   transparency |-> LRUClear(tc), dominantColor |-> LRUClear(cc)]

\* clearCache: the four caches after the call
clearCache(dc, ic, tc, cc) ==
  [dimensions |-> LRUClear(dc), info |-> LRUClear(ic),
   transparency |-> LRUClear(tc), dominantColor |-> LRUClear(cc)]

\* getCacheStats
getCacheStats(dc, ic, tc, cc) ==
  [dimensions |-> LRUSize(dc), info |-> LRUSize(ic),
   transparency |-> LRUSize(tc), dominantColor |-> LRUSize(cc)]

(***************************************************************************)
(* ImageConverterService: constants, records and the batch pipeline        *)
(*                                                                         *)
(* A batch is one call of convertFormat or compressImages: its image       *)
(* entries, its AbortSignal and the state of the mergeMap that drains it   *)
(* (buffer, active count, the codec call of every item).  A blob URL is    *)
(* the pair << record id, 0 >> (original) or << record id, 1 >>            *)
(* (compressed); '' is the empty sequence.                                 *)
(***************************************************************************)
MAX_FILE_SIZE_MB == 100

VALID_MIME_TYPES == {"image/jpeg", "image/png", "image/webp", "image/gif", "image/avif"}

\* ImageHelpers.getOptimalConcurrency() on a device with the given cores and memory
getOptimalConcurrency(cores, memory) ==
  IF memory >= 8 /\ cores >= 8 THEN 8
  ELSE IF memory >= 4 /\ cores >= 4 THEN 6
  ELSE 4

\* a validation that looks at the type only
validateFileTypeOnly(file) ==
  IF file.type \notin VALID_MIME_TYPES THEN Some("Invalid file type") ELSE Undefined

\* validateFiles, one file: the error message (its kind) or null
validateFile(file) ==
  IF file.type \notin VALID_MIME_TYPES THEN Some("Invalid file type")
  ELSE IF file.size > MAX_FILE_SIZE_MB * 1024 * 1024 THEN Some("File too large")
  ELSE IF file.size = 0 THEN Some("File is empty")
  ELSE Undefined

\* validateFiles: the message for the first offending file, or null
RECURSIVE validateFiles(_)
validateFiles(files) ==
  IF files = << >> THEN Undefined
  ELSE IF validateFile(Head(files)) # Undefined THEN validateFile(Head(files))
  ELSE validateFiles(Tail(files))

EmptyUrl == << >>

\* URL.createObjectURL of the original (0) or the compressed (1) file of a record
createObjectURL(id, which) == << id, which >>

\* createImageEntries: one pending entry per file, ids issued after `issued`
createImageEntries(files, issued) ==
  [ i \in 1..Len(files) |->
      [ id |-> issued + i,
        originalSize |-> files[i].size,
        compressedSize |-> 0,
        originalUrl |-> createObjectURL(issued + i, 0),
        compressedUrl |-> EmptyUrl,
        status |-> "pending" ] ]

\* addImagesToState: [map, order] with the entries appended
RECURSIVE addImagesToState(_, _, _)
addImagesToState(map, order, entries) ==
  IF entries = << >> THEN [map |-> map, order |-> order]
  ELSE addImagesToState(MapSet(map, Head(entries).id, Head(entries)),
                        Append(order, Head(entries).id), Tail(entries))

\* a status update that notifies even when the record is gone
updateImageStatusAlwaysNotifies(map, id, status) ==
  IF MapGet(map, id) # Undefined
    THEN [map |-> MapSet(map, id, [MapGet(map, id)[1] EXCEPT !.status = status]),
          notified |-> 1]
    ELSE [map |-> map, notified |-> 1]

\* updateImageStatus: the Map afterwards and the number of notifications sent
updateImageStatus(map, id, status) ==
  IF MapGet(map, id) # Undefined
    THEN [map |-> MapSet(map, id, [MapGet(map, id)[1] EXCEPT !.status = status]),
          notified |-> 1]
    ELSE [map |-> map, notified |-> 0]

\* updateImageOnSuccess: the Map afterwards, the number of notifications sent
\* and the blob URLs created
updateImageOnSuccess(map, id, size) ==
  IF MapGet(map, id) # Undefined
    THEN [map |-> MapSet(map, id, [MapGet(map, id)[1] EXCEPT
                                     !.compressedSize = size,
                                     !.compressedUrl = createObjectURL(id, 1),
                                     !.status = "completed"]),
          notified |-> 1,
          urls |-> << createObjectURL(id, 1) >>]
    ELSE [map |-> map, notified |-> 0, urls |-> << >>]

\* the batch created by an accepted call
NewBatch(entries, concurrency) ==
  [ items |-> [i \in 1..Len(entries) |-> entries[i].id],
    concurrency |-> concurrency,
    aborted |-> FALSE,         \* signal.aborted
    phase |-> "created",       \* created, running, completed, errored
    buffer |-> << >>,          \* mergeMap: positions waiting for a slot
    active |-> 0,              \* mergeMap: inner subscriptions
    calls |-> [i \in 1..Len(entries) |-> "none"],  \* codec call: none, open, resolved, rejected
    error |-> Undefined ]      \* the error delivered to the observer

\* what a turn of a subscription does, in order: a blob URL created, the
\* listeners notified (with the Map as it is then), the codec invoked for a record
TurnStep(kind, map, url, id) == [kind |-> kind, map |-> map, url |-> url, id |-> id]

UrlCreated(url) == TurnStep("createObjectURL", << >>, url, 0)
ListenersNotified(map) == TurnStep("notifyImagesChange", map, EmptyUrl, 0)
CodecInvoked(id) == TurnStep("compressImage", << >>, EmptyUrl, id)

\* the turn of one subscription: the Map, the batch, notifications sent, what
\* the turn did in order, error raised
Turn(map, batch) ==
  [map |-> map, batch |-> batch, notified |-> 0, steps |-> << >>, failed |-> Undefined]

\* a slot test that admits one subscription too many
HasFreeSlotInclusive(active, concurrent) == active <= concurrent

\* mergeMap: a value is projected at once while active < concurrent
HasFreeSlot(active, concurrent) == active < concurrent

\* the project function of mergeMap: the abort check, then processImage
\* (status 'processing', codec invoked)
Project(t, pos) ==
  IF t.batch.aborted
    THEN [t EXCEPT !.failed = Some("Operation aborted"), !.batch.active = @ + 1]
    ELSE LET u == updateImageStatus(t.map, t.batch.items[pos], "processing")
         IN [t EXCEPT !.map = u.map,
                      !.notified = @ + u.notified,
                      !.steps = @ \o (IF u.notified = 1 THEN << ListenersNotified(u.map) >>
                                                          ELSE << >>)
                                  \o << CodecInvoked(t.batch.items[pos]) >>,
                      !.batch.active = @ + 1,
                      !.batch.calls[pos] = "open"]

\* mergeMap receives the values of from(imageFiles), in order
RECURSIVE OuterNext(_, _)
OuterNext(t, positions) ==
  IF positions = << >> \/ t.failed # Undefined THEN t
  ELSE IF HasFreeSlot(t.batch.active, t.batch.concurrency)
    THEN OuterNext(Project(t, Head(positions)), Tail(positions))
    ELSE OuterNext([t EXCEPT !.batch.buffer = Append(@, Head(positions))], Tail(positions))

\* mergeMap after an inner observable completed: the slot is given to the buffer
RECURSIVE InnerComplete(_)
InnerComplete(t) ==
  IF t.batch.buffer # << >> /\ HasFreeSlot(t.batch.active, t.batch.concurrency)
    THEN InnerComplete(Project([t EXCEPT !.batch.buffer = Tail(@)], Head(t.batch.buffer)))
    ELSE t

\* a pipeline that reports errors but never completes
SettleWithoutComplete(t) ==
  IF t.failed # Undefined
    THEN [t EXCEPT !.batch.phase = "errored", !.batch.error = t.failed]
    ELSE t

\* the observable errors, completes (source done, nothing buffered or active)
\* or stays subscribed
Settle(t) ==
  IF t.failed # Undefined
    THEN [t EXCEPT !.batch.phase = "errored", !.batch.error = t.failed]
  ELSE IF t.batch.buffer = << >> /\ t.batch.active = 0
    THEN [t EXCEPT !.batch.phase = "completed"]
  ELSE t

\* a finalize that leaves the controller in place
finalizeKeepsController(controller) == controller

\* finalize(() => { this.abortController = null })
finalize(controller) == Undefined

\* an abort that triggers the signal of every batch
abortProcessingEverySignal(controller, bs) ==
  IF controller # Undefined
    THEN [controller |-> Undefined,
          batches |-> [b \in 1..Len(bs) |-> [bs[b] EXCEPT !.aborted = TRUE]]]
    ELSE [controller |-> controller, batches |-> bs]

\* abortProcessing: the controller field and the batches (their signals) afterwards;
\* a controller is named by the batch that created it
abortProcessing(controller, bs) ==
  IF controller # Undefined
    THEN [controller |-> Undefined,
          batches |-> [bs EXCEPT ![controller[1]].aborted = TRUE]]
    ELSE [controller |-> controller, batches |-> bs]

(***************************************************************************)
(* ImageConverterService: the store, its listeners and blob URLs           *)
(*                                                                         *)
(* What an operation does to the outside is a sequence of effects, in the  *)
(* order the code performs them: URL.createObjectURL, URL.revokeObjectURL  *)
(* and the call of a listener with a snapshot.                             *)
(***************************************************************************)
Effect(kind, url, listener, snapshot) ==
  [kind |-> kind, url |-> url, listener |-> listener, snapshot |-> snapshot, id |-> 0]

Created(url) == Effect("createObjectURL", url, 0, << >>)
Revoked(url) == Effect("revokeObjectURL", url, 0, << >>)
Called(listener, snapshot) == Effect("listener", EmptyUrl, listener, snapshot)

\* the codec is handed the file of record id
Invoked(id) == [Effect("compressImage", EmptyUrl, 0, << >>) EXCEPT !.id = id]

\* get images(): the records of _imageOrder that _imagesMap holds
images(map, order) ==
  LET found == SelectSeq(order, LAMBDA id : MapGet(map, id) # Undefined)
  IN [i \in 1..Len(found) |-> MapGet(map, found[i])[1]]

\* notifyImagesChange: every listener, in registration order, gets one snapshot
notifyImagesChange(map, order, listeners) ==
  [i \in 1..Len(listeners) |-> Called(listeners[i], images(map, order))]

\* a revocation that forgets the compressed file
revokeImageUrlsOriginalOnly(image) ==
  IF image.originalUrl # EmptyUrl THEN << Revoked(image.originalUrl) >> ELSE << >>

\* revokeImageUrls: the non-empty URLs of a record, original first
revokeImageUrls(image) ==
  (IF image.originalUrl # EmptyUrl THEN << Revoked(image.originalUrl) >> ELSE << >>)
    \o (IF image.compressedUrl # EmptyUrl THEN << Revoked(image.compressedUrl) >> ELSE << >>)

\* images.forEach(img => this.revokeImageUrls(img))
RECURSIVE revokeAll(_)
revokeAll(imgs) ==
  IF imgs = << >> THEN << >> ELSE revokeImageUrls(Head(imgs)) \o revokeAll(Tail(imgs))

\* the result of a store operation
Stored(map, order, listeners, notified, effects) ==
  [map |-> map, order |-> order, listeners |-> listeners, notified |-> notified,
   effects |-> effects]

\* Array.prototype.indexOf, 0 when absent
indexOf(s, x) ==
  IF \E i \in 1..Len(s) : s[i] = x
    THEN CHOOSE i \in 1..Len(s) : s[i] = x /\ \A j \in 1..(i - 1) : s[j] # x
    ELSE 0

\* an unsubscribe function that leaves the listener registered
unsubscribeKeeps(listeners, callback) == listeners

\* the function returned by onImagesChange(callback): splice in place
unsubscribe(listeners, callback) ==
  LET index == indexOf(listeners, callback)
  IN IF index > 0
       THEN [i \in 1..(Len(listeners) - 1) |->
               IF i < index THEN listeners[i] ELSE listeners[i + 1]]
       ELSE listeners

\* callbacks that call back into the service while they are notified: -1
\* invokes its own unsubscribe function (a listener for one change), -2 keeps
\* the list short by removeImage of the oldest record when it is shown more
\* than one; every other callback only looks at the snapshot
Reactors == { -1, -2 }

CallbackBody(callback) ==
  IF callback = -1 THEN "unsubscribe"
  ELSE IF callback = -2 THEN "removeImage"
  ELSE "observe"

RECURSIVE forEachListener(_, _, _, _)
RECURSIVE removeImageFrom(_, _)

\* what a callback does with the snapshot it is called with
listenerBody(st, callback, snapshot) ==
  IF CallbackBody(callback) = "unsubscribe"
    THEN [st EXCEPT !.listeners = unsubscribe(@, callback)]
  ELSE IF CallbackBody(callback) = "removeImage" /\ Len(snapshot) > 1
    THEN removeImageFrom(st, snapshot[1].id)
  ELSE st

\* this._imagesListeners.forEach(listener => listener(images)): the indices
\* below the length at the start are visited, those that the array no longer
\* has are skipped
forEachListener(st, k, len, snapshot) ==
  IF k > len \/ k > Len(st.listeners) THEN st
  ELSE forEachListener(
         listenerBody([st EXCEPT !.effects = Append(@, Called(st.listeners[k], snapshot))],
                      st.listeners[k], snapshot),
         k + 1, len, snapshot)

\* notifyImagesChange() with callbacks of any kind: the snapshot is taken
\* once, before the first listener is called
notifyStore(st) ==
  forEachListener(st, 1, Len(st.listeners), images(st.map, st.order))

\* removeImage(id) on a store
removeImageFrom(st, id) ==
  IF MapGet(st.map, id) # Undefined
    THEN notifyStore([st EXCEPT !.map = MapDelete(@, id),
                                !.order = SelectSeq(@, LAMBDA imgId : imgId # id),
                                !.notified = @ + 1,
                                !.effects = @ \o revokeImageUrls(MapGet(st.map, id)[1])])
    ELSE st

\* a removal that tells the listeners before it releases the URLs
removeImageNotifyFirst(map, order, listeners, id) ==
  IF MapGet(map, id) # Undefined
    THEN LET map2 == MapDelete(map, id)
             order2 == SelectSeq(order, LAMBDA imgId : imgId # id)
         IN Stored(map2, order2, listeners, 1,
                   notifyImagesChange(map2, order2, listeners)
                     \o revokeImageUrls(MapGet(map, id)[1]))
    ELSE Stored(map, order, listeners, 0, << >>)

\* removeImage(id)
removeImage(map, order, listeners, id) ==
  removeImageFrom(Stored(map, order, listeners, 0, << >>), id)

\* a removeAllImages that removes, and notifies, record by record
RECURSIVE removeEach(_, _, _)
removeEach(map, order, listeners) ==
  IF order = << >> THEN Stored(map, order, listeners, 0, << >>)
  ELSE LET first == removeImage(map, order, listeners, Head(order))
           rest == removeEach(first.map, first.order, listeners)
       IN Stored(rest.map, rest.order, listeners, first.notified + rest.notified,
                 first.effects \o rest.effects)

removeAllImagesOneByOne(map, order, listeners) == removeEach(map, order, listeners)

\* removeAllImages()
removeAllImages(map, order, listeners) ==
  notifyStore(Stored(<< >>, << >>, listeners, 1, revokeAll(images(map, order))))

\* clearCompleted: the forEach over the snapshot (revoke and delete each
\* completed record)
RECURSIVE clearEach(_, _)
clearEach(map, imgs) ==
  IF imgs = << >> THEN [map |-> map, effects |-> << >>]
  ELSE IF Head(imgs).status = "completed"
    THEN LET rest == clearEach(MapDelete(map, Head(imgs).id), Tail(imgs))
         IN [map |-> rest.map, effects |-> revokeImageUrls(Head(imgs)) \o rest.effects]
    ELSE clearEach(map, Tail(imgs))

\* a clearCompleted that drops every record that is not pending
clearCompletedAndFailed(map, order, listeners) ==
  LET gone == { id \in MapKeys(map) : MapGet(map, id)[1].status \in {"completed", "error"} }
      map2 == SelectSeq(map, LAMBDA e : e.key \notin gone)
      order2 == SelectSeq(order, LAMBDA id : id \notin gone)
  IN Stored(map2, order2, listeners, 1,
            revokeAll(SelectSeq(images(map, order), LAMBDA img : img.id \in gone))
              \o notifyImagesChange(map2, order2, listeners))

\* clearCompleted()
clearCompleted(map, order, listeners) ==
  LET cleared == clearEach(map, images(map, order))
      order2 == SelectSeq(order, LAMBDA id :
                  /\ MapGet(cleared.map, id) # Undefined
                  /\ MapGet(cleared.map, id)[1].status # "completed")
  IN notifyStore(Stored(cleared.map, order2, listeners, 1, cleared.effects))

\* a teardown that forgets the listeners
ngOnDestroyKeepsListeners(map, order, listeners) ==
  Stored(<< >>, << >>, listeners, 0, revokeAll(images(map, order)))

\* ngOnDestroy()
ngOnDestroy(map, order, listeners) ==
  Stored(<< >>, << >>, << >>, 0, revokeAll(images(map, order)))

\* onImagesChange(callback): the callback is pushed and called with the
\* snapshot; its unsubscribe function does not exist yet during that call
onImagesChange(map, order, listeners, callback) ==
  LET st == Stored(map, order, Append(listeners, callback), 0,
                   << Called(callback, images(map, order)) >>)
  IN IF CallbackBody(callback) = "unsubscribe" THEN st
     ELSE listenerBody(st, callback, images(map, order))

(***************************************************************************)
(* State                                                                   *)
(***************************************************************************)
VARIABLES
  cache,      \* stand-alone LRUCache: its Map
  maxSize,    \* stand-alone LRUCache: its capacity
  recency,    \* history: keys touched since the last clear, least recently touched first
  lastOp,     \* the most recent call on the stand-alone cache and what it returned
  fileA,      \* getCacheKey: first file
  fileB,      \* getCacheKey: second file
  keyA,       \* getCacheKey(fileA) (undefined before the call)
  keyB,       \* getCacheKey(fileB) (undefined before the call)
  batchGiven, \* optimizeBatchOrder: the array as the caller built it
  batchInput, \* optimizeBatchOrder: the caller's array now
  batchOutput,        \* optimizeBatchOrder: the returned array (undefined before the call)
  dimensionsCache,    \* ImageUtilsService.dimensionsCache: its Map
  infoCache,          \* ImageUtilsService.infoCache: its Map
  transparencyCache,  \* ImageUtilsService.transparencyCache: its Map
  dominantColorCache, \* ImageUtilsService.dominantColorCache: its Map
  calls,              \* the calls on the service, settled or suspended at an await
  memo,               \* history: first result and computations per method and key
  utilEvent,          \* the most recent turn on the service and what it returned
  abortController,    \* ImageConverterService.abortController: null or the batch that created it
  imagesMap,          \* ImageConverterService._imagesMap
  imageOrder,         \* ImageConverterService._imageOrder
  issued,             \* ids issued by crypto.randomUUID()
  batches,            \* the batches accepted, in the order of the calls
  convEvent,          \* the most recent turn on the converter, what it notified and emitted
  abortLog,           \* history: items in flight, and items undispatched, at an abort
  imagesListeners,    \* ImageConverterService._imagesListeners
  listenerLife,       \* history: each callback is idle, active, unsubscribed or cleared
  effects,            \* the most recent turn on the converter: URLs created and revoked
                      \* and listeners called, in order
  liveUrls            \* history: the blob URLs created and not revoked since

lruVars == << cache, maxSize, recency, lastOp >>
keyVars == << fileA, fileB, keyA, keyB >>
orderVars == << batchGiven, batchInput, batchOutput >>

utilVars == << dimensionsCache, infoCache, transparencyCache, dominantColorCache,
              calls, memo, utilEvent >>

storeVars == << imagesListeners, listenerLife, effects, liveUrls >>

convVars == << abortController, imagesMap, imageOrder, issued, batches, convEvent, abortLog,
              storeVars >>

vars == << lruVars, keyVars, orderVars, utilVars, convVars >>

\* lastOp: the call, the value it returned and the Map it was made on
NoOp == [op |-> "none", key |-> 0, value |-> "", ret |-> Undefined, pre |-> << >>]

\* history bookkeeping: k has just been touched
Touch(r, k) == Append(SelectSeq(r, LAMBDA x : x # k), k)

\* all sequences over S of length at most n
SeqUpTo(S, n) == UNION { [1..k -> S] : k \in 0..n }

Files == [name : SeqUpTo(NameChars, MaxNameLen), size : FileSizes, lastModified : FileTimes]

NoFile == [name |-> << >>, size |-> 0, lastModified |-> 0]

\* components that take no part in a specification stay as constructed
LRUIdle ==
  /\ maxSize = 1
  /\ cache = << >>
  /\ recency = << >>
  /\ lastOp = NoOp

KeyIdle ==
  /\ fileA = NoFile /\ fileB = NoFile
  /\ keyA = Undefined /\ keyB = Undefined

OrderIdle ==
  /\ batchGiven = << >> /\ batchInput = << >> /\ batchOutput = Undefined

(***************************************************************************)
(* ImageConverterService: state helpers                                    *)
(***************************************************************************)
\* files offered to convertFormat and compressImages
Small == [size |-> 100, type |-> "image/png"]
Large == [size |-> 200, type |-> "image/jpeg"]
Blank == [size |-> 0, type |-> "image/png"]
Text == [size |-> 100, type |-> "text/plain"]
Huge == [size |-> 100 * 1024 * 1024 + 1, type |-> "image/webp"]

\* the arrays of files offered
ConvInputs == { << >>, << Blank >>, << Small, Text >>, << Small, Huge >>,
                << Large, Small >>, << Large, Small, Small >> }

\* the arrays offered to batches that overlap, and their concurrency option
OverlapInputs == { << Small >>, << Large, Small >> }
SerialOptions == { Some(1) }

\* the arrays offered to a store whose records are removed, and the
\* concurrency option: a number, 0 included
StoreInputs == { << Large, Small >> }
StoreOptions == { Some(0), Some(1) }

\* codec results: the size of the compressed file
CompressedSizes == {40}

\* navigator.hardwareConcurrency and navigator.deviceMemory of the device
Cores == 4
DeviceMemory == 4

\* options.concurrency: absent or a number
ConcurrencyOptions == {Undefined} \cup { Some(k) : k \in 1..MaxConcurrency }

Terminal == {"completed", "errored"}

\* files: the array handed to convertFormat or compressImages, empty for
\* every other turn
NoConvEvent ==
  [kind |-> "none", batch |-> 0, pos |-> 0, notified |-> 0,
   returned |-> "none", observer |-> << >>, files |-> << >>]

ConvEvent(kind, b, pos, notified, returned, observer) ==
  [kind |-> kind, batch |-> b, pos |-> pos, notified |-> notified,
   returned |-> returned, observer |-> observer, files |-> << >>]

\* what the observer of a subscription is told at the end of a turn
Termination(batch) ==
  IF batch.phase = "completed" THEN << "complete" >>
  ELSE IF batch.phase = "errored" THEN << "error" >>
  ELSE << >>

\* positions of a batch by the state of their codec call
Positions(batch, state) == { i \in 1..Len(batch.items) : batch.calls[i] = state }

\* items of a subscribed batch whose codec call is outstanding
InFlightIds(batch) ==
  IF batch.phase = "running" THEN { batch.items[i] : i \in Positions(batch, "open") } ELSE {}

\* items of a batch that have not been dispatched
UndispatchedIds(batch) == { batch.items[i] : i \in Positions(batch, "none") }

Unfinished(bs) == { b \in 1..Len(bs) : bs[b].phase \notin Terminal }

NoAbortLog == [inFlight |-> {}, cancelled |-> {}, held |-> {}, idleAt |-> -1]

\* the callbacks handed to onImagesChange, each a function of its own
Callbacks == 1..MaxListeners

\* the effects of the steps of a turn of a subscription
RECURSIVE TurnEffects(_, _, _)
TurnEffects(steps, order, listeners) ==
  IF steps = << >> THEN << >>
  ELSE (IF Head(steps).kind = "createObjectURL" THEN << Created(Head(steps).url) >>
        ELSE IF Head(steps).kind = "notifyImagesChange"
          THEN notifyImagesChange(Head(steps).map, order, listeners)
        ELSE << Invoked(Head(steps).id) >>)
         \o TurnEffects(Tail(steps), order, listeners)

Creations(urls) == [i \in 1..Len(urls) |-> Created(urls[i])]

\* history bookkeeping: the live blob URLs after a sequence of effects
RECURSIVE UrlLedger(_, _)
UrlLedger(live, effs) ==
  IF effs = << >> THEN live
  ELSE UrlLedger(IF Head(effs).kind = "createObjectURL" THEN live \cup {Head(effs).url}
                 ELSE IF Head(effs).kind = "revokeObjectURL" THEN live \ {Head(effs).url}
                 ELSE live,
                 Tail(effs))

\* new ImageConverterService()
ConvIdle ==
  /\ abortController = Undefined
  /\ imagesMap = << >> /\ imageOrder = << >>
  /\ issued = 0
  /\ batches = << >>
  /\ convEvent = NoConvEvent
  /\ abortLog = NoAbortLog
  /\ imagesListeners = << >>
  /\ listenerLife = [cb \in Callbacks |-> "idle"]
  /\ effects = << >>
  /\ liveUrls = {}

(***************************************************************************)
(* ImageUtilsService: calls in flight                                      *)
(***************************************************************************)
PngA == [name |-> << "a" >>, size |-> 1, lastModified |-> 1, type |-> "image/png"]
JpegA == [name |-> << "a" >>, size |-> 1, lastModified |-> 1, type |-> "image/jpeg"]
PngB == [name |-> << "a" >>, size |-> 11, lastModified |-> 1, type |-> "image/png"]
HugeC == [name |-> << "a", "-", "1" >>, size |-> 52428801, lastModified |-> 0,
          type |-> "image/webp"]

\* files handed to the service: PngA and JpegA share their cache key, HugeC is
\* above the 50 MB limit of getImageDimensions
UtilFiles == {PngA, JpegA, HugeC}

\* files of the calls that overlap
OverlapFiles == {PngA, HugeC}

\* a third key, offered to getImageDimensions only
ProbeFiles == UtilFiles \cup {PngB}
UtilKeys == { getCacheKey(f) : f \in ProbeFiles }

\* what the decoder, the pixel scan and the median cut may answer
DimsValues == {[width |-> 4, height |-> 2]}
AlphaValues == {TRUE, FALSE}
HexValues == {"#FF8000"}

Ops == {"getImageDimensions", "getImageInfo", "hasTransparency", "getDominantColor"}

\* a slot holds one unsettled call: the method, its argument, where it is
\* suspended (pc) and the settled inner getImageDimensions (dims, failed);
\* what a call returns is reported in utilEvent.returns (undefined: rejected)
IdleCall == [op |-> "none", file |-> PngA, pc |-> "idle", dims |-> Undefined,
             failed |-> FALSE]

NewCall(op, file) == [IdleCall EXCEPT !.op = op, !.file = file, !.pc = "running"]

\* the promise of getImageDimensions settles: the call itself when it is a
\* getImageDimensions call, else the awaiting method continues in a later turn
SettleDims(c, settle, value) ==
  IF c.op = "getImageDimensions"
    THEN IdleCall
    ELSE [c EXCEPT !.pc = "settled", !.dims = value, !.failed = (settle = "rejected")]

NoEvent == [kind |-> "none", slot |-> 0, outcome |-> "", returns |-> << >>]

\* history per method and key, from the first successful call on: its result
\* (first) and how often the computation behind the cache has been started
\* (runs, counted up to 2); forgotten when the key leaves the cache
EmptyMemo == [first |-> Undefined, runs |-> 0]

CacheOf(op, dc, ic, tc, cc) ==
  IF op = "getImageDimensions" THEN dc
  ELSE IF op = "getImageInfo" THEN ic
  ELSE IF op = "hasTransparency" THEN tc
  ELSE cc

MemoEvent(m, e) ==
  LET old == m[e.op][e.key]
      new == IF e.what = "miss"
               THEN [old EXCEPT !.runs = IF old.first = Undefined THEN 1
                                         ELSE IF old.runs < 2 THEN old.runs + 1 ELSE 2]
             ELSE IF e.what = "stored"
               THEN [old EXCEPT !.first = IF old.first = Undefined THEN e.value ELSE old.first]
             ELSE IF old.first = Undefined THEN EmptyMemo ELSE old
  IN [m EXCEPT ![e.op][e.key] = new]

RECURSIVE MemoEvents(_, _)
MemoEvents(m, evs) ==
  IF evs = << >> THEN m ELSE MemoEvents(MemoEvent(m, Head(evs)), Tail(evs))

MemoNext(m, evs, dc, ic, tc, cc) ==
  LET after == MemoEvents(m, evs)
  IN [op \in Ops |-> [k \in UtilKeys |->
        IF after[op][k].first # Undefined /\ ~MapHas(CacheOf(op, dc, ic, tc, cc), k)
          THEN EmptyMemo ELSE after[op][k]]]

Ev(op, file, what, value) ==
  [op |-> op, key |-> getCacheKey(file), what |-> what, value |-> value]

Ret(op, file, value) == [op |-> op, key |-> getCacheKey(file), value |-> value]

\* new ImageUtilsService()
UtilsIdle ==
  /\ dimensionsCache = << >> /\ infoCache = << >>
  /\ transparencyCache = << >> /\ dominantColorCache = << >>
  /\ calls = [i \in 1..MaxCalls |-> IdleCall]
  /\ memo = [op \in Ops |-> [k \in UtilKeys |-> EmptyMemo]]
  /\ utilEvent = NoEvent

\* the capacities with which ImageUtilsService constructs its caches
ServiceCapacities == {DIMENSIONS_CACHE_SIZE, INFO_CACHE_SIZE, TRANSPARENCY_CACHE_SIZE,
                      DOMINANT_COLOR_CACHE_SIZE}

\* new LRUCache(maxSize)
InitLRU ==
  /\ maxSize \in (1..MaxCap) \cup ServiceCapacities
  /\ cache = << >>
  /\ recency = << >>
  /\ lastOp = NoOp
  /\ KeyIdle /\ OrderIdle /\ UtilsIdle /\ ConvIdle

\* cache.get(k)
Get(k) ==
  LET r == LRUGet(cache, k)
  IN /\ cache' = r.cache
     /\ recency' = IF MapHas(cache, k) THEN Touch(recency, k) ELSE recency
     /\ lastOp' = [op |-> "get", key |-> k, value |-> "", ret |-> r.ret, pre |-> cache]
     /\ UNCHANGED << maxSize, keyVars, orderVars, utilVars, convVars >>

\* cache.set(k, v)
Set(k, v) ==
  /\ cache' = LRUSet(cache, maxSize, k, v)
  /\ recency' = Touch(recency, k)
  /\ lastOp' = [op |-> "set", key |-> k, value |-> v, ret |-> Undefined, pre |-> cache]
  /\ UNCHANGED << maxSize, keyVars, orderVars, utilVars, convVars >>

\* cache.has(k)
Has(k) ==
  LET r == LRUHas(cache, k)
  IN /\ cache' = r.cache
     /\ lastOp' = [op |-> "has", key |-> k, value |-> "", ret |-> Some(r.ret), pre |-> cache]
     /\ UNCHANGED << maxSize, recency, keyVars, orderVars, utilVars, convVars >>

\* cache.clear()
Clear ==
  /\ cache' = LRUClear(cache)
  /\ recency' = << >>
  /\ lastOp' = [op |-> "clear", key |-> 0, value |-> "", ret |-> Undefined, pre |-> cache]
  /\ UNCHANGED << maxSize, keyVars, orderVars, utilVars, convVars >>

\* a cache of a service capacity is driven by a scan over maxSize + 1 keys in
\* turn: the next key after the one touched last
ScanKey == IF recency = << >> THEN 1 ELSE (recency[Len(recency)] % (maxSize + 1)) + 1

OfferedKeys == IF maxSize \in 1..MaxCap THEN LruKeys ELSE {ScanKey}

OfferedValues == IF maxSize \in 1..MaxCap THEN LruValues ELSE {"v1"}

NextLRU ==
  \/ \E k \in OfferedKeys : Get(k)
  \/ \E k \in OfferedKeys, v \in OfferedValues : Set(k, v)
  \/ \E k \in OfferedKeys : Has(k)
  \/ Clear

SpecLRU == InitLRU /\ [][NextLRU]_vars


(***************************************************************************)
(* ImageUtilsService: actions                                              *)
(***************************************************************************)
InitUtils == UtilsIdle /\ LRUIdle /\ KeyIdle /\ OrderIdle /\ ConvIdle

\* one turn of the event loop on behalf of the call in slot i
Commit(i, kind, outcome, newCall, dc, ic, tc, cc, evs, rets) ==
  /\ calls' = [calls EXCEPT ![i] = newCall]
  /\ dimensionsCache' = dc /\ infoCache' = ic
  /\ transparencyCache' = tc /\ dominantColorCache' = cc
  /\ memo' = MemoNext(memo, evs, dc, ic, tc, cc)
  /\ utilEvent' = [kind |-> kind, slot |-> i, outcome |-> outcome, returns |-> rets]
  /\ UNCHANGED << lruVars, keyVars, orderVars, convVars >>

SlotFree(i) == calls[i].pc = "idle"

\* the call c enters getImageDimensions (its own body or the awaited inner call)
EnterDims(c) ==
  LET e == DimsEnter(dimensionsCache, c.file)
  IN IF TruthyObject(e.cached)
       THEN [call |-> SettleDims(c, "resolved", e.cached), dc |-> e.cache, evs |-> << >>,
             rets |-> << Ret("getImageDimensions", c.file, e.cached) >>]
       ELSE [call |-> [c EXCEPT !.pc = "metadata"], dc |-> e.cache,
             evs |-> << Ev("getImageDimensions", c.file, "miss", Undefined) >>,
             rets |-> << >>]

\* getImageDimensions(f) is called
CallGetImageDimensions(i, f) ==
  /\ SlotFree(i)
  /\ LET e == EnterDims(NewCall("getImageDimensions", f))
     IN Commit(i, "call", "", e.call, e.dc, infoCache, transparencyCache,
               dominantColorCache, e.evs, e.rets)

\* getImageInfo(f) is called
CallGetImageInfo(i, f) ==
  /\ SlotFree(i)
  /\ LET c == NewCall("getImageInfo", f)
         r == LRUGet(infoCache, getCacheKey(f))
         e == EnterDims(c)
     IN IF TruthyObject(r.ret)
          THEN Commit(i, "call", "", IdleCall, dimensionsCache, r.cache,
                      transparencyCache, dominantColorCache, << >>,
                      << Ret("getImageInfo", f, r.ret) >>)
          ELSE Commit(i, "call", "", e.call, e.dc, r.cache, transparencyCache,
                      dominantColorCache,
                      << Ev("getImageInfo", f, "miss", Undefined) >> \o e.evs, e.rets)

\* hasTransparency(f) is called
CallHasTransparency(i, f) ==
  /\ SlotFree(i)
  /\ LET c == NewCall("hasTransparency", f)
         r == LRUGet(transparencyCache, getCacheKey(f))
         e == EnterDims(c)
     IN IF f.type = "image/jpeg"
          THEN Commit(i, "call", "jpeg", IdleCall, dimensionsCache,
                      infoCache, transparencyCache, dominantColorCache, << >>,
                      << Ret("hasTransparency", f, Some(FALSE)) >>)
        ELSE IF transparencyCacheHit(r.ret)
          THEN Commit(i, "call", "", IdleCall, dimensionsCache, infoCache,
                      r.cache, dominantColorCache, << >>,
                      << Ret("hasTransparency", f, r.ret) >>)
          ELSE Commit(i, "call", "", e.call, e.dc, infoCache, r.cache, dominantColorCache,
                      << Ev("hasTransparency", f, "miss", Undefined) >> \o e.evs, e.rets)

\* getDominantColor(f) is called
CallGetDominantColor(i, f) ==
  /\ SlotFree(i)
  /\ LET c == NewCall("getDominantColor", f)
         r == LRUGet(dominantColorCache, getCacheKey(f))
         e == EnterDims(c)
     IN IF TruthyString(r.ret)
          THEN Commit(i, "call", "", IdleCall, dimensionsCache, infoCache,
                      transparencyCache, r.cache, << >>,
                      << Ret("getDominantColor", f, r.ret) >>)
          ELSE Commit(i, "call", "", e.call, e.dc, infoCache, transparencyCache, r.cache,
                      << Ev("getDominantColor", f, "miss", Undefined) >> \o e.evs, e.rets)

\* the settlement of the getImageDimensions promise of call c, as a turn
CommitDims(i, kind, outcome, c, r) ==
  Commit(i, kind, outcome, SettleDims(c, r.settle, r.value), r.cache, infoCache,
         transparencyCache, dominantColorCache,
         << Ev("getImageDimensions", c.file,
               IF r.settle = "resolved" THEN "stored" ELSE "failed", r.value) >>,
         << Ret("getImageDimensions", c.file, r.value) >>)

\* extractDimensionsFromMetadata answers: dimensions from the header, or null
MetadataSettles(i, metadataDims) ==
  /\ calls[i].pc = "metadata"
  /\ LET c == calls[i]
         r == DimsOnMetadata(dimensionsCache, c.file, metadataDims)
         outcome == IF metadataDims = Undefined THEN "null" ELSE "header"
     IN IF r.settle = "load"
          THEN Commit(i, "metadata", outcome, [c EXCEPT !.pc = "load"], r.cache, infoCache,
                      transparencyCache, dominantColorCache, << >>, << >>)
          ELSE CommitDims(i, "metadata", outcome, c, r)

LoadOutcomes ==
  { [kind |-> "onload", loaded |-> Some(d)] : d \in DimsValues }
    \cup { [kind |-> "onerror", loaded |-> Undefined], [kind |-> "timeout", loaded |-> Undefined] }

\* the Image of getImageDimensions loads, fails, or the 10 s timeout fires
ImageLoadSettles(i, o) ==
  /\ calls[i].pc = "load"
  /\ CommitDims(i, "load", o.kind, calls[i], DimsOnLoad(dimensionsCache, calls[i].file, o.loaded))

\* getImageInfo continues after `await this.getImageDimensions(file)`
InfoContinues(i) ==
  /\ calls[i].pc = "settled" /\ calls[i].op = "getImageInfo"
  /\ LET c == calls[i]
         r == InfoFinish(infoCache, c.file, c.dims[1])
     IN IF c.failed
          THEN Commit(i, "continue", "dimensionsRejected", IdleCall,
                      dimensionsCache, infoCache, transparencyCache, dominantColorCache,
                      << Ev("getImageInfo", c.file, "failed", Undefined) >>,
                      << Ret("getImageInfo", c.file, Undefined) >>)
          ELSE Commit(i, "continue", "", IdleCall,
                      dimensionsCache, r.cache, transparencyCache, dominantColorCache,
                      << Ev("getImageInfo", c.file, "stored", Some(r.value)) >>,
                      << Ret("getImageInfo", c.file, Some(r.value)) >>)

\* the catch block of hasTransparency / getDominantColor runs for call c
CommitCatch(i, kind, outcome, c) ==
  LET t == TransparencyCatch(transparencyCache, c.file)
      d == DominantColorCatch(dominantColorCache, c.file)
  IN IF c.op = "hasTransparency"
       THEN Commit(i, kind, outcome, IdleCall, dimensionsCache,
                   infoCache, t.cache, dominantColorCache,
                   << Ev(c.op, c.file, "failed", Undefined) >>,
                   << Ret(c.op, c.file, Some(t.value)) >>)
       ELSE Commit(i, kind, outcome, IdleCall, dimensionsCache,
                   infoCache, transparencyCache, d.cache,
                   << Ev(c.op, c.file, "failed", Undefined) >>,
                   << Ret(c.op, c.file, Some(d.value)) >>)

\* hasTransparency / getDominantColor continue after the inner
\* getImageDimensions: createCanvas and getContext succeed or throw
AnalysisContinues(i, canvas) ==
  /\ calls[i].pc = "settled" /\ calls[i].op \in {"hasTransparency", "getDominantColor"}
  /\ calls[i].failed => canvas = "canvas"
  /\ LET c == calls[i]
     IN IF c.failed THEN CommitCatch(i, "continue", "dimensionsRejected", c)
        ELSE IF canvas = "canvasError" THEN CommitCatch(i, "continue", "canvasError", c)
        ELSE Commit(i, "continue", "", [c EXCEPT !.pc = "loadImage"], dimensionsCache,
                    infoCache, transparencyCache, dominantColorCache, << >>, << >>)

AnalysisFailures == {"loadError", "readError"}

\* loadImage rejects, drawImage / getImageData throws, or the pixels yield v
AnalysisOutcomes(V) ==
  { [kind |-> "pixels", value |-> Some(v)] : v \in V }
    \cup { [kind |-> k, value |-> Undefined] : k \in AnalysisFailures }

\* hasTransparency: loadImage settles; drawing and reading the pixels may throw
TransparencyScanSettles(i, o) ==
  /\ calls[i].pc = "loadImage" /\ calls[i].op = "hasTransparency"
  /\ LET c == calls[i]
         r == TransparencyFinish(transparencyCache, c.file, o.value[1])
     IN IF o.kind \in AnalysisFailures THEN CommitCatch(i, "loadImage", o.kind, c)
        ELSE Commit(i, "loadImage", o.kind, IdleCall,
                    dimensionsCache, infoCache, r.cache, dominantColorCache,
                    << Ev(c.op, c.file, "stored", Some(r.value)) >>,
                    << Ret(c.op, c.file, Some(r.value)) >>)

\* getDominantColor: loadImage settles; drawing and reading the pixels may throw
DominantColorSettles(i, o) ==
  /\ calls[i].pc = "loadImage" /\ calls[i].op = "getDominantColor"
  /\ LET c == calls[i]
         r == DominantColorFinish(dominantColorCache, c.file, o.value[1])
     IN IF o.kind \in AnalysisFailures THEN CommitCatch(i, "loadImage", o.kind, c)
        ELSE Commit(i, "loadImage", o.kind, IdleCall,
                    dimensionsCache, infoCache, transparencyCache, r.cache,
                    << Ev(c.op, c.file, "stored", Some(r.value)) >>,
                    << Ret(c.op, c.file, Some(r.value)) >>)

\* clearCache()
ClearCache ==
  LET r == clearCache(dimensionsCache, infoCache, transparencyCache, dominantColorCache)
  IN /\ dimensionsCache' = r.dimensions /\ infoCache' = r.info
     /\ transparencyCache' = r.transparency /\ dominantColorCache' = r.dominantColor
     /\ memo' = MemoNext(memo, << >>, r.dimensions, r.info, r.transparency, r.dominantColor)
     /\ utilEvent' = [kind |-> "clear", slot |-> 0, outcome |-> "", returns |-> << >>]
     /\ UNCHANGED << calls, lruVars, keyVars, orderVars, convVars >>

\* the turns of a getImageDimensions or getImageInfo call in slot i, with
\* getImageDimensions called on the files of probes and getImageInfo on the
\* files of queries
DimsStep(i, probes, queries) ==
  \/ \E f \in probes : CallGetImageDimensions(i, f)
  \/ \E f \in queries : CallGetImageInfo(i, f)
  \/ \E m \in {Undefined} \cup { Some(d) : d \in DimsValues } : MetadataSettles(i, m)
  \/ \E o \in LoadOutcomes : ImageLoadSettles(i, o)
  \/ InfoContinues(i)

\* the further turns of a hasTransparency or getDominantColor call in slot i
AnalysisStep(i) ==
  \/ \E f \in UtilFiles : CallHasTransparency(i, f)
  \/ \E f \in UtilFiles : CallGetDominantColor(i, f)
  \/ \E canvas \in {"canvas", "canvasError"} : AnalysisContinues(i, canvas)
  \/ \E o \in AnalysisOutcomes(AlphaValues) : TransparencyScanSettles(i, o)
  \/ \E o \in AnalysisOutcomes(HexValues) : DominantColorSettles(i, o)

\* a caller that awaits every call before the next
NextSeq == DimsStep(1, ProbeFiles, UtilFiles) \/ AnalysisStep(1) \/ ClearCache

SpecSeq == InitUtils /\ [][NextSeq]_vars

\* callers that do not await: up to MaxCalls dimension and info queries overlap
NextOverlap == (\E i \in 1..MaxCalls : DimsStep(i, OverlapFiles, OverlapFiles)) \/ ClearCache

SpecOverlap == InitUtils /\ [][NextOverlap]_vars

(***************************************************************************)
(* getCacheKey applied to two files                                        *)
(***************************************************************************)
\* two files are at hand; no key has been derived yet
InitKey ==
  /\ fileA \in Files /\ fileB \in Files
  /\ keyA = Undefined /\ keyB = Undefined
  /\ LRUIdle /\ OrderIdle /\ UtilsIdle /\ ConvIdle

\* const a = getCacheKey(fileA); const b = getCacheKey(fileB)
DeriveKeys ==
  /\ keyA = Undefined
  /\ keyA' = Some(getCacheKey(fileA))
  /\ keyB' = Some(getCacheKey(fileB))
  /\ UNCHANGED << fileA, fileB, lruVars, orderVars, utilVars, convVars >>

NextKey == DeriveKeys

SpecKey == InitKey /\ [][NextKey]_vars

(***************************************************************************)
(* optimizeBatchOrder applied to an array                                  *)
(***************************************************************************)
\* the caller builds an array of files
InitOrder ==
  /\ batchGiven \in SeqUpTo(BatchFiles, MaxBatch)
  /\ batchInput = batchGiven
  /\ batchOutput = Undefined
  /\ LRUIdle /\ KeyIdle /\ UtilsIdle /\ ConvIdle

\* const sorted = ImageHelpers.optimizeBatchOrder(files)
OptimizeBatchOrder ==
  LET r == optimizeBatchOrder(batchInput)
  IN /\ batchOutput = Undefined
     /\ batchInput' = r.input
     /\ batchOutput' = Some(r.ret)
     /\ UNCHANGED << batchGiven, lruVars, keyVars, utilVars, convVars >>

NextOrder == OptimizeBatchOrder

SpecOrder == InitOrder /\ [][NextOrder]_vars

(***************************************************************************)
(* ImageConverterService: actions                                          *)
(***************************************************************************)
InitConv == ConvIdle /\ LRUIdle /\ KeyIdle /\ OrderIdle /\ UtilsIdle

\* convertFormat(files, options) / compressImages(files, options)
CallBatch(op, files, option, limit) ==
  LET validationError == validateFiles(files)
      optimizedFiles == optimizeBatchOrder(files).ret
      entries == createImageEntries(optimizedFiles, issued)
      added == addImagesToState(imagesMap, imageOrder, entries)
      accepted == notifyStore(Stored(added.map, added.order, imagesListeners, 1,
                    Creations([i \in 1..Len(entries) |-> entries[i].originalUrl])))
      concurrency == IF option # Undefined THEN option[1]
                     ELSE getOptimalConcurrency(Cores, DeviceMemory)
      b == Len(batches) + 1
  IN IF Len(files) = 0
       THEN /\ convEvent' = ConvEvent(op, 0, 0, 0, "EMPTY", << >>)
            /\ effects' = << >>
            /\ UNCHANGED liveUrls
            /\ UNCHANGED << abortController, imagesMap, imageOrder, issued, batches, abortLog,
                            imagesListeners >>
     ELSE IF validationError # Undefined
       THEN /\ convEvent' = [ConvEvent(op, 0, 0, 0, "throwError", << >>)
                              EXCEPT !.files = files]
            /\ effects' = << >>
            /\ UNCHANGED liveUrls
            /\ UNCHANGED << abortController, imagesMap, imageOrder, issued, batches, abortLog,
                            imagesListeners >>
     ELSE /\ Len(batches) < limit
          /\ abortController' = Some(b)
          /\ imagesMap' = accepted.map
          /\ imageOrder' = accepted.order
          /\ imagesListeners' = accepted.listeners
          /\ issued' = issued + Len(entries)
          /\ batches' = Append(batches, NewBatch(entries, concurrency))
          /\ convEvent' = [ConvEvent(op, b, 0, accepted.notified, "pipeline", << >>)
                            EXCEPT !.files = files]
          /\ effects' = accepted.effects
          /\ liveUrls' = UrlLedger(liveUrls, effects')
          /\ UNCHANGED abortLog

ConvertFormat(inputs, options, limit) ==
  /\ \E files \in inputs, option \in options :
       CallBatch("convertFormat", files, option, limit)
  /\ UNCHANGED listenerLife
  /\ UNCHANGED << lruVars, keyVars, orderVars, utilVars >>

CompressImages(inputs, options, limit) ==
  /\ \E files \in inputs, option \in options :
       CallBatch("compressImages", files, option, limit)
  /\ UNCHANGED listenerLife
  /\ UNCHANGED << lruVars, keyVars, orderVars, utilVars >>

\* the end of a turn of batch b: state written back, finalize on termination
CommitTurn(b, t, kind, pos, observer) ==
  /\ imagesMap' = t.map
  /\ batches' = [batches EXCEPT ![b] = t.batch]
  /\ abortController' = IF t.batch.phase \in Terminal THEN finalize(abortController)
                        ELSE abortController
  /\ convEvent' = ConvEvent(kind, b, pos, t.notified, "none", observer \o Termination(t.batch))
  /\ effects' = TurnEffects(t.steps, imageOrder, imagesListeners)
  /\ liveUrls' = UrlLedger(liveUrls, effects')
  /\ UNCHANGED << imageOrder, issued, abortLog, imagesListeners, listenerLife >>
  /\ UNCHANGED << lruVars, keyVars, orderVars, utilVars >>

\* observable.subscribe(): from(imageFiles) hands every entry to mergeMap
Subscribe ==
  \E b \in 1..Len(batches) :
    /\ batches[b].phase = "created"
    /\ LET t0 == Turn(imagesMap, [batches[b] EXCEPT !.phase = "running"])
           t == Settle(OuterNext(t0, [i \in 1..Len(batches[b].items) |-> i]))
       IN CommitTurn(b, t, "subscribe", 0, << >>)

\* the codec call of an item resolves with a compressed file
CodecResolves ==
  \E b \in 1..Len(batches), size \in CompressedSizes :
    \E pos \in Positions(batches[b], "open") :
      IF batches[b].phase = "running"
        THEN LET u == updateImageOnSuccess(imagesMap, batches[b].items[pos], size)
                 t0 == [Turn(u.map, [batches[b] EXCEPT !.calls[pos] = "resolved",
                                                       !.active = @ - 1])
                          EXCEPT !.notified = u.notified,
                                 !.steps = [i \in 1..Len(u.urls) |-> UrlCreated(u.urls[i])]
                                             \o (IF u.notified = 1
                                                   THEN << ListenersNotified(u.map) >>
                                                   ELSE << >>)]
             IN CommitTurn(b, Settle(InnerComplete(t0)), "resolve", pos, << "next" >>)
        ELSE /\ batches' = [batches EXCEPT ![b].calls[pos] = "resolved"]
             /\ convEvent' = ConvEvent("resolve", b, pos, 0, "none", << >>)
             /\ effects' = << >>
             /\ UNCHANGED liveUrls
             /\ UNCHANGED << abortController, imagesMap, imageOrder, issued, abortLog,
                             imagesListeners, listenerLife >>
             /\ UNCHANGED << lruVars, keyVars, orderVars, utilVars >>

\* the codec call of an item rejects
CodecRejects ==
  \E b \in 1..Len(batches) :
    \E pos \in Positions(batches[b], "open") :
      IF batches[b].phase = "running"
        THEN LET u == updateImageStatus(imagesMap, batches[b].items[pos], "error")
                 t0 == [Turn(u.map, [batches[b] EXCEPT !.calls[pos] = "rejected"])
                          EXCEPT !.notified = u.notified,
                                 !.steps = IF u.notified = 1
                                             THEN << ListenersNotified(u.map) >> ELSE << >>,
                                 !.failed = Some("Codec error")]
             IN CommitTurn(b, Settle(t0), "reject", pos, << >>)
        ELSE /\ batches' = [batches EXCEPT ![b].calls[pos] = "rejected"]
             /\ convEvent' = ConvEvent("reject", b, pos, 0, "none", << >>)
             /\ effects' = << >>
             /\ UNCHANGED liveUrls
             /\ UNCHANGED << abortController, imagesMap, imageOrder, issued, abortLog,
                             imagesListeners, listenerLife >>
             /\ UNCHANGED << lruVars, keyVars, orderVars, utilVars >>

\* abortProcessing()
AbortProcessing ==
  LET r == abortProcessing(abortController, batches)
      hit == IF abortController # Undefined THEN abortController[1] ELSE 0
      triggered == hit # 0 /\ batches[hit].phase = "running"
  IN /\ abortController' = r.controller
     /\ batches' = r.batches
     /\ convEvent' = ConvEvent("abort", hit, 0, 0, "none", << >>)
     /\ abortLog' =
          [ inFlight |-> abortLog.inFlight
                           \cup (IF triggered THEN InFlightIds(batches[hit]) ELSE {}),
            cancelled |-> abortLog.cancelled
                           \cup (IF triggered THEN UndispatchedIds(batches[hit]) ELSE {}),
            held |-> abortLog.held
                       \cup UNION { UndispatchedIds(batches[b]) :
                                      b \in { c \in Unfinished(batches) :
                                                Unfinished(batches) = {c} } },
            idleAt |-> IF Unfinished(batches) = {} THEN Len(batches)
                       ELSE abortLog.idleAt ]
     /\ effects' = << >>
     /\ UNCHANGED liveUrls
     /\ UNCHANGED << imagesMap, imageOrder, issued, imagesListeners, listenerLife >>
     /\ UNCHANGED << lruVars, keyVars, orderVars, utilVars >>

\* one batch, with every concurrency option
NextConv ==
  \/ ConvertFormat(ConvInputs, ConcurrencyOptions, 1)
  \/ CompressImages(ConvInputs, ConcurrencyOptions, 1)
  \/ Subscribe
  \/ CodecResolves
  \/ CodecRejects
  \/ AbortProcessing

SpecConv == InitConv /\ [][NextConv]_vars

\* up to MaxBatches batches that may overlap, each processed serially
NextBatches ==
  \/ ConvertFormat(OverlapInputs, SerialOptions, MaxBatches)
  \/ CompressImages(OverlapInputs, SerialOptions, MaxBatches)
  \/ Subscribe
  \/ CodecResolves
  \/ CodecRejects
  \/ AbortProcessing

SpecBatches == InitConv /\ [][NextBatches]_vars

\* a second subscription to the observable of a batch whose first subscription
\* has ended and has no codec call outstanding: the pipeline runs again, over
\* the same entries and with the same signal
Resubscribe ==
  \E b \in 1..Len(batches) :
    /\ batches[b].phase \in Terminal
    /\ Positions(batches[b], "open") = {}
    /\ LET again == [batches[b] EXCEPT !.phase = "running",
                                       !.buffer = << >>,
                                       !.active = 0,
                                       !.calls = [i \in 1..Len(batches[b].items) |-> "none"],
                                       !.error = Undefined]
           t == Settle(OuterNext(Turn(imagesMap, again),
                                 [i \in 1..Len(batches[b].items) |-> i]))
       IN CommitTurn(b, t, "resubscribe", 0, << >>)

\* the end of a call on the store: a removal names the id it was given as pos
CommitStore(r, kind, id, life) ==
  /\ imagesMap' = r.map
  /\ imageOrder' = r.order
  /\ imagesListeners' = r.listeners
  /\ listenerLife' = life
  /\ effects' = r.effects
  /\ liveUrls' = UrlLedger(liveUrls, effects')
  /\ convEvent' = ConvEvent(kind, 0, id, r.notified, "none", << >>)
  /\ UNCHANGED << abortController, issued, batches, abortLog >>
  /\ UNCHANGED << lruVars, keyVars, orderVars, utilVars >>

\* removeImage(id), of a record in the store or of an id that is not
RemoveImage ==
  \E id \in 1..(issued + 1) :
    CommitStore(removeImage(imagesMap, imageOrder, imagesListeners, id),
                "removeImage", id, listenerLife)

\* removeAllImages()
RemoveAllImages ==
  CommitStore(removeAllImages(imagesMap, imageOrder, imagesListeners),
              "removeAllImages", 0, listenerLife)

\* clearCompleted()
ClearCompleted ==
  CommitStore(clearCompleted(imagesMap, imageOrder, imagesListeners),
              "clearCompleted", 0, listenerLife)

\* ngOnDestroy()
NgOnDestroy ==
  CommitStore(ngOnDestroy(imagesMap, imageOrder, imagesListeners), "ngOnDestroy", 0,
              [cb \in Callbacks |->
                 IF listenerLife[cb] = "active" THEN "cleared" ELSE listenerLife[cb]])

\* onImagesChange(cb), each callback function registered once
OnImagesChange ==
  \E cb \in Callbacks :
    /\ listenerLife[cb] = "idle"
    /\ CommitStore(onImagesChange(imagesMap, imageOrder, imagesListeners, cb),
                   "onImagesChange", cb, [listenerLife EXCEPT ![cb] = "active"])

\* the function returned by onImagesChange(cb) is invoked
Unsubscribe ==
  \E cb \in Callbacks :
    /\ listenerLife[cb] # "idle"
    /\ CommitStore(Stored(imagesMap, imageOrder, unsubscribe(imagesListeners, cb), 0, << >>),
                   "unsubscribe", cb, [listenerLife EXCEPT ![cb] = "unsubscribed"])

\* batches whose records are removed and whose observable is subscribed again,
\* with listeners coming and going
NextStore ==
  \/ ConvertFormat(StoreInputs, StoreOptions, 1)
  \/ CompressImages(StoreInputs, StoreOptions, 1)
  \/ Subscribe
  \/ Resubscribe
  \/ CodecResolves
  \/ CodecRejects
  \/ AbortProcessing
  \/ RemoveImage
  \/ RemoveAllImages
  \/ ClearCompleted
  \/ NgOnDestroy
  \/ OnImagesChange
  \/ Unsubscribe

SpecStore == InitConv /\ [][NextStore]_vars

\* up to MaxBatches batches, each processed serially, whose records are removed
\* while they are converted
NextRemovals ==
  \/ ConvertFormat(OverlapInputs, SerialOptions, MaxBatches)
  \/ CompressImages(OverlapInputs, SerialOptions, MaxBatches)
  \/ Subscribe
  \/ CodecResolves
  \/ CodecRejects
  \/ RemoveImage
  \/ RemoveAllImages
  \/ ClearCompleted

SpecRemovals == InitConv /\ [][NextRemovals]_vars

\* one batch, subscribed once, with every public operation of the store
NextOnce ==
  \/ ConvertFormat(ConvInputs, ConcurrencyOptions, 1)
  \/ CompressImages(ConvInputs, ConcurrencyOptions, 1)
  \/ Subscribe
  \/ CodecResolves
  \/ CodecRejects
  \/ AbortProcessing
  \/ RemoveImage
  \/ RemoveAllImages
  \/ ClearCompleted
  \/ NgOnDestroy

SpecOnce == InitConv /\ [][NextOnce]_vars

\* onImagesChange(cb) of a callback that calls back into the service
OnImagesChangeReacting ==
  \E cb \in Reactors :
    /\ indexOf(imagesListeners, cb) = 0
    /\ CommitStore(onImagesChange(imagesMap, imageOrder, imagesListeners, cb),
                   "onImagesChange", cb, listenerLife)

\* a store that is mutated while its listeners, some of which call back into
\* the service from their callback, come and go
NextListeners ==
  \/ ConvertFormat(StoreInputs, SerialOptions, MaxBatches)
  \/ RemoveImage
  \/ RemoveAllImages
  \/ OnImagesChange
  \/ OnImagesChangeReacting
  \/ Unsubscribe

SpecListeners == InitConv /\ [][NextListeners]_vars

(***************************************************************************)
(* Properties of LRUCache                                                  *)
(***************************************************************************)
\* the present key whose most recent touch (get hit or set) is the oldest
LeastRecentlyTouched ==
  LET present == { i \in 1..Len(recency) : MapHas(cache, recency[i]) }
  IN recency[CHOOSE i \in present : \A j \in present : i <= j]

\* C1: set(k, v) with k absent and the cache full removes exactly one entry,
\* the present key whose most recent touch (get hit or set) is the oldest,
\* keeps every other entry with its value, and inserts k with v.
C1_SetEvictsLeastRecentlyTouched ==
  [][ (lastOp'.op = "set" /\ ~MapHas(cache, lastOp'.key) /\ LRUSize(cache) = maxSize)
      => /\ LeastRecentlyTouched \in MapKeys(cache)
         /\ MapKeys(cache') = (MapKeys(cache) \ {LeastRecentlyTouched}) \cup {lastOp'.key}
         /\ LRUSize(cache') = maxSize
         /\ \A k \in MapKeys(cache) \ {LeastRecentlyTouched} : MapGet(cache', k) = MapGet(cache, k)
         /\ MapGet(cache', lastOp'.key) = Some(lastOp'.value) ]_vars

\* capacity 2: keys 1 and 2 were present, 1 touched after 2, then set(3, v)
\* left 1 and 3
C1_Witness ==
  /\ maxSize = 2
  /\ lastOp.op = "set" /\ lastOp.key = 3
  /\ MapKeys(lastOp.pre) = {1, 2}
  /\ recency = << 2, 1, 3 >>
  /\ MapKeys(cache) = {1, 3}

\* C2: a cache of capacity N >= 1 never holds more than N entries, and the
\* dimensions, info, transparency and dominantColor caches of the service
\* never hold more than 100, 50, 100 and 50.
C2_SizeWithinCapacity ==
  /\ LRUSize(cache) <= maxSize
  /\ LRUSize(dimensionsCache) <= 100
  /\ LRUSize(infoCache) <= 50
  /\ LRUSize(transparencyCache) <= 100
  /\ LRUSize(dominantColorCache) <= 50

\* a cache of the capacity of the dimensions cache, full, has taken one more key
C2_Witness ==
  /\ maxSize = DIMENSIONS_CACHE_SIZE
  /\ lastOp.op = "set"
  /\ LRUSize(lastOp.pre) = 100 /\ ~MapHas(lastOp.pre, lastOp.key)
  /\ LRUSize(cache) = 100

\* C3: set(k, v) with k present replaces the value of k, makes k the
\* most-recently-used entry (last to be evicted), evicts nothing and keeps the
\* size, the other entries and their order, also when the cache is full.
C3_SetExistingPromotes ==
  [][ (lastOp'.op = "set" /\ MapHas(cache, lastOp'.key))
      => /\ MapGet(cache', lastOp'.key) = Some(lastOp'.value)
         /\ cache'[Len(cache')].key = lastOp'.key
         /\ MapKeys(cache') = MapKeys(cache)
         /\ LRUSize(cache') = LRUSize(cache)
         /\ MapDelete(cache', lastOp'.key) = MapDelete(cache, lastOp'.key) ]_vars

\* a full cache of capacity 2 whose oldest key was set again with another value
C3_Witness ==
  /\ lastOp.op = "set"
  /\ maxSize = 2 /\ LRUSize(lastOp.pre) = 2
  /\ lastOp.pre[1].key = lastOp.key
  /\ lastOp.pre[1].value # lastOp.value
  /\ LRUSize(cache) = 2

\* C4: has(k) returns true exactly when k is present and changes neither the
\* entries nor their order, so the next eviction is the one it would have been.
C4_HasIsPure ==
  [][ lastOp'.op = "has"
      => /\ lastOp'.ret = Some(lastOp'.key \in MapKeys(cache))
         /\ cache' = cache
         /\ MapFirstKey(cache') = MapFirstKey(cache) ]_vars

\* has(k) answered true for the oldest key of a full cache of two entries
C4_Witness ==
  /\ lastOp.op = "has" /\ lastOp.ret = Some(TRUE)
  /\ LRUSize(cache) = 2 /\ maxSize = 2
  /\ cache[1].key = lastOp.key

(***************************************************************************)
(* Properties of getCacheKey and optimizeBatchOrder                        *)
(***************************************************************************)
\* C5: two files get the same cache key if and only if their name, size and
\* lastModified are all equal, also for names that contain the separator '-'.
C5_CacheKeyInjective ==
  (keyA # Undefined /\ keyB # Undefined) =>
    ((keyA[1] = keyB[1]) <=> /\ fileA.name = fileB.name
                             /\ fileA.size = fileB.size
                             /\ fileA.lastModified = fileB.lastModified)

\* a name ending in "-1" against the shorter name with size 1: keys of equal
\* length that still differ
C5_Witness ==
  /\ fileA.name = << "a", "-" >> /\ fileA.size = 1 /\ fileA.lastModified = 1
  /\ fileB.name = << "a" >> /\ fileB.size = 1 /\ fileB.lastModified = -1
  /\ keyA # Undefined /\ keyB # Undefined
  /\ Len(keyA[1]) = Len(keyB[1])
  /\ keyA[1] # keyB[1]

\* q maps the positions of t to the positions of s they were taken from
IsStableSortedBy(q, s, t) ==
  /\ \A i \in 1..Len(t) : t[i] = s[q[i]]
  /\ \A i, j \in 1..Len(t) : i # j => q[i] # q[j]
  /\ \A i, j \in 1..Len(t) : i < j => t[i].size <= t[j].size
  /\ \A i, j \in 1..Len(t) : (i < j /\ t[i].size = t[j].size) => q[i] < q[j]

\* C10: the returned array is a permutation of the input in non-decreasing
\* order of size, files of equal size keep their input order, and the input
\* array is not modified.
C10_BatchOrderStableAscending ==
  batchOutput # Undefined =>
    /\ Len(batchOutput[1]) = Len(batchGiven)
    /\ \E q \in [1..Len(batchGiven) -> 1..Len(batchGiven)] :
         IsStableSortedBy(q, batchGiven, batchOutput[1])
    /\ batchInput = batchGiven

\* sizes 200, 100, 100 with distinct names: the two files of size 100 come
\* first in their input order, and the caller's array is still unsorted
C10_Witness ==
  /\ batchOutput # Undefined
  /\ batchGiven = << [name |-> "x", size |-> 200], [name |-> "y", size |-> 100],
                     [name |-> "x", size |-> 100] >>
  /\ batchOutput[1] = << [name |-> "y", size |-> 100], [name |-> "x", size |-> 100],
                         [name |-> "x", size |-> 200] >>
  /\ batchInput # batchOutput[1]

(***************************************************************************)
(* Properties of the analysis caches of ImageUtilsService                  *)
(***************************************************************************)
\* the entries of a Map, without their order
Entries(m) == { m[i] : i \in 1..Len(m) }

\* a call of method op returned in the last turn with an undefined value: it rejected
Rejected(ev, op) == \E n \in 1..Len(ev.returns) : ev.returns[n].op = op /\ ev.returns[n].value = Undefined

\* C6: with every call awaited before the next, from the first successful call
\* of a cached analysis for a key until that key leaves the cache, the
\* computation behind the cache has run exactly once and every call for the key
\* returns the first call's result (hasTransparency: on non-JPEG files), also
\* when that result is false.
C6_SequentialCallsComputeOnce ==
  [][ /\ \A op \in Ops, k \in UtilKeys :
           memo'[op][k].first # Undefined => memo'[op][k].runs = 1
      /\ \A n \in 1..Len(utilEvent'.returns) :
           LET r == utilEvent'.returns[n]
           IN (utilEvent'.outcome # "jpeg" /\ memo'[r.op][r.key].first # Undefined)
                => r.value = memo'[r.op][r.key].first ]_vars

\* a later hasTransparency call on a PNG got the cached false of the first call
C6_Witness ==
  /\ utilEvent.kind = "call"
  /\ Len(utilEvent.returns) = 1
  /\ utilEvent.returns[1].op = "hasTransparency"
  /\ utilEvent.returns[1].key = getCacheKey(PngA)
  /\ utilEvent.returns[1].value = Some(FALSE)
  /\ memo["hasTransparency"][getCacheKey(PngA)] = [first |-> Some(FALSE), runs |-> 1]

\* C7: a turn in which getImageDimensions or getImageInfo rejects changes no
\* cache, and the dimensions (info) cache takes an entry only in a turn in
\* which getImageDimensions (getImageInfo) resolves with that entry, so a call
\* that rejects has stored nothing under its key.
C7_FailedProbeStoresNothing ==
  [][ /\ (Rejected(utilEvent', "getImageDimensions") \/ Rejected(utilEvent', "getImageInfo"))
           => /\ dimensionsCache' = dimensionsCache
              /\ infoCache' = infoCache
      /\ \A e \in Entries(dimensionsCache') \ Entries(dimensionsCache) :
           \E n \in 1..Len(utilEvent'.returns) :
             utilEvent'.returns[n] = [op |-> "getImageDimensions", key |-> e.key,
                                      value |-> Some(e.value)]
      /\ \A e \in Entries(infoCache') \ Entries(infoCache) :
           \E n \in 1..Len(utilEvent'.returns) :
             utilEvent'.returns[n] = [op |-> "getImageInfo", key |-> e.key,
                                      value |-> Some(e.value)] ]_vars

\* getImageInfo on the oversize file has rejected after its dimension probe
\* failed, and neither cache holds the key
C7_Witness ==
  /\ utilEvent.kind = "continue" /\ utilEvent.outcome = "dimensionsRejected"
  /\ Len(utilEvent.returns) = 1
  /\ utilEvent.returns[1].op = "getImageInfo"
  /\ utilEvent.returns[1].key = getCacheKey(HugeC)
  /\ utilEvent.returns[1].value = Undefined
  /\ ~MapHas(infoCache, getCacheKey(HugeC))
  /\ ~MapHas(dimensionsCache, getCacheKey(HugeC))

FailureOutcomes == {"dimensionsRejected", "canvasError"} \cup AnalysisFailures

DefaultOf(op) == IF op = "hasTransparency" THEN Some(FALSE) ELSE Some("#000000")

\* C8: hasTransparency and getDominantColor never reject; when their analysis
\* fails they resolve with false, respectively '#000000', and the transparency
\* and dominant-color caches stay as they are; these caches take an entry only
\* in a turn in which the pixels were analysed.
C8_FallbackIsNotCached ==
  [][ /\ \A n \in 1..Len(utilEvent'.returns) :
           LET r == utilEvent'.returns[n]
           IN r.op \in {"hasTransparency", "getDominantColor"}
                => /\ r.value # Undefined
                   /\ utilEvent'.outcome \in FailureOutcomes
                        => /\ r.value = DefaultOf(r.op)
                           /\ transparencyCache' = transparencyCache
                           /\ dominantColorCache' = dominantColorCache
      /\ (Entries(transparencyCache') \ Entries(transparencyCache) # {}
            \/ Entries(dominantColorCache') \ Entries(dominantColorCache) # {})
           => utilEvent'.outcome = "pixels" ]_vars

\* hasTransparency fell back to false after loadImage failed: the dimensions
\* are cached, the fallback is not
C8_Witness ==
  /\ utilEvent.outcome = "loadError"
  /\ Len(utilEvent.returns) = 1
  /\ utilEvent.returns[1].op = "hasTransparency"
  /\ utilEvent.returns[1].key = getCacheKey(PngA)
  /\ utilEvent.returns[1].value = Some(FALSE)
  /\ MapHas(dimensionsCache, getCacheKey(PngA))
  /\ ~MapHas(transparencyCache, getCacheKey(PngA))

CacheStats == getCacheStats(dimensionsCache, infoCache, transparencyCache, dominantColorCache)

\* C9: getCacheStats reports for each cache the number of keys it holds, and
\* right after clearCache all four numbers are 0.
C9_StatsCountKeys ==
  /\ CacheStats.dimensions = Cardinality(MapKeys(dimensionsCache))
  /\ CacheStats.info = Cardinality(MapKeys(infoCache))
  /\ CacheStats.transparency = Cardinality(MapKeys(transparencyCache))
  /\ CacheStats.dominantColor = Cardinality(MapKeys(dominantColorCache))
  /\ utilEvent.kind = "clear"
       => CacheStats = [dimensions |-> 0, info |-> 0, transparency |-> 0, dominantColor |-> 0]

\* dimension probes of three distinct files and an info query on one of them
C9_Witness ==
  CacheStats = [dimensions |-> 3, info |-> 1, transparency |-> 0, dominantColor |-> 0]

(***************************************************************************)
(* Properties of the batch pipeline of ImageConverterService               *)
(***************************************************************************)
\* codec calls of a batch that were dispatched and have not settled
Outstanding(batch) == Cardinality(Positions(batch, "open"))

\* C11: in a batch started with concurrency K >= 1, at most K items have an
\* outstanding codec call at any moment.
C11_ConcurrencyBound ==
  \A b \in 1..Len(batches) :
    batches[b].concurrency >= 1 => Outstanding(batches[b]) <= batches[b].concurrency

\* a batch of three with concurrency 2: one call has resolved, the third item
\* took its slot and two calls are outstanding
C11_Witness ==
  /\ convEvent.kind = "resolve"
  /\ \E b \in 1..Len(batches) :
       /\ Len(batches[b].items) = 3 /\ batches[b].concurrency = 2
       /\ Outstanding(batches[b]) = 2
       /\ batches[b].calls[3] = "open"

\* the record of an item in a store, and in the store now
RecordIn(map, id) == MapGet(map, id)[1]

RecordOf(id) == RecordIn(imagesMap, id)

\* the observable of the batch has terminated and no codec call is outstanding
AtRest(batch) == batch.phase \in Terminal /\ Outstanding(batch) = 0

\* C12: in a batch in which exactly one codec call rejects (and abort is not
\* called), once the batch is at rest every other item is 'completed' and only
\* the failing item is 'error'.
C12_OneFailureLeavesOthersCompleted ==
  \A b \in 1..Len(batches) :
    (/\ AtRest(batches[b])
     /\ ~batches[b].aborted
     /\ Cardinality(Positions(batches[b], "rejected")) = 1)
      => \A i \in 1..Len(batches[b].items) :
           RecordOf(batches[b].items[i]).status =
             (IF batches[b].calls[i] = "rejected" THEN "error" ELSE "completed")

\* C13: the observable of a batch never terminates with the error of an item's
\* codec call.
C13_CodecFailureDoesNotFailObservable ==
  \A b \in 1..Len(batches) :
    batches[b].phase = "errored" => batches[b].error # Some("Codec error")

\* C14: when a codec call of a subscribed batch settles, by success or by
\* failure, while items are buffered and abort has not been called, the first
\* buffered item is dispatched in the same turn.
C14_SettlementDispatchesNext ==
  [][ \A b \in 1..Len(batches) :
        (/\ convEvent'.kind \in {"resolve", "reject"}
         /\ convEvent'.batch = b
         /\ batches[b].phase = "running"
         /\ batches[b].buffer # << >>
         /\ ~batches[b].aborted)
          => LET next == Head(batches[b].buffer)
             IN /\ batches'[b].calls[next] = "open"
                /\ RecordIn(imagesMap', batches[b].items[next]).status = "processing"
    ]_vars

\* C15: once a batch that was aborted while subscribed is at rest, every item
\* that was undispatched at the abort has status 'error'.
C15_AbortMarksUndispatchedAsError ==
  \A b \in 1..Len(batches) :
    AtRest(batches[b])
      => \A i \in 1..Len(batches[b].items) :
           batches[b].items[i] \in abortLog.cancelled
             => RecordOf(batches[b].items[i]).status = "error"

\* C17: an item that was in flight when abortProcessing() triggered the token
\* of its batch is 'completed', with compressedUrl and compressedSize set from
\* the result, once its codec call has resolved, and 'error' once it has
\* rejected.
C17_InFlightItemsRunToCompletion ==
  \A b \in 1..Len(batches) :
    \A i \in 1..Len(batches[b].items) :
      LET r == RecordOf(batches[b].items[i])
      IN batches[b].items[i] \in abortLog.inFlight
           => /\ batches[b].calls[i] = "resolved"
                   => /\ r.status = "completed"
                      /\ r.compressedUrl # EmptyUrl
                      /\ r.compressedSize \in CompressedSizes
              /\ batches[b].calls[i] = "rejected" => r.status = "error"

\* C16: an item that was undispatched when abortProcessing() was called on a
\* service whose only unfinished batch was the item's batch is never dispatched:
\* its codec is not invoked and its status never becomes 'processing'.
C16_NoDispatchAfterAbort ==
  \A b \in 1..Len(batches) :
    \A i \in 1..Len(batches[b].items) :
      batches[b].items[i] \in abortLog.held
        => /\ batches[b].calls[i] = "none"
           /\ RecordOf(batches[b].items[i]).status # "processing"

\* the batch started last
Latest == Len(batches)

\* C18: abortProcessing() called while the most recently started batch is
\* subscribed and has undispatched items triggers the token of that batch,
\* whatever has become of earlier batches.
C18_AbortReachesLatestBatch ==
  [][ (/\ convEvent'.kind = "abort"
       /\ Latest >= 1
       /\ batches[Latest].phase = "running"
       /\ UndispatchedIds(batches[Latest]) # {})
        => batches'[Latest].aborted ]_vars

\* C19: with batch B started while batch A is unfinished, abortProcessing()
\* leaves A as it is and, A and B being the only batches, triggers B's token;
\* no step triggers the token of a batch that is not the latest, and while A's
\* token is untriggered a call of A that resolves is recorded as 'completed'
\* and hands its slot to A's next undispatched item.
C19_AbortSparesEarlierBatch ==
  [][ \A a \in 1..(Latest - 1) :
        /\ batches'[a].aborted = batches[a].aborted
        /\ (convEvent'.kind = "abort" /\ batches[a].phase = "running")
             => /\ batches'[a] = batches[a]
                /\ imagesMap' = imagesMap
                /\ (/\ Latest = 2
                    /\ batches[Latest].phase = "running"
                    /\ UndispatchedIds(batches[Latest]) # {})
                     => batches'[Latest].aborted
        /\ (/\ convEvent'.kind = "resolve" /\ convEvent'.batch = a
            /\ batches[a].phase = "running" /\ ~batches[a].aborted)
             => /\ RecordIn(imagesMap', batches[a].items[convEvent'.pos]).status = "completed"
                /\ batches[a].buffer # << >>
                     => batches'[a].calls[Head(batches[a].buffer)] = "open"
    ]_vars

\* batch 2 was aborted while batch 1 was running; a call of batch 1 has now
\* resolved, its item is 'completed' and the next item of batch 1 is in flight
C19_Witness ==
  /\ Len(batches) = 2
  /\ batches[2].aborted /\ ~batches[1].aborted
  /\ \E id \in abortLog.cancelled : id \in UndispatchedIds(batches[2])
  /\ convEvent.kind = "resolve" /\ convEvent.batch = 1
  /\ batches[1].calls = << "resolved", "open" >>
  /\ RecordOf(batches[1].items[1]).status = "completed"
  /\ RecordOf(batches[1].items[2]).status = "processing"

\* C20: abortProcessing() called while every batch accepted so far has
\* completed or errored (or none was accepted) changes nothing: the records,
\* their order, the batches and their tokens and the controller field stay as
\* they are and no listener is notified, so a batch started afterwards runs as
\* if the call had not been made.
C20_IdleAbortIsNoOp ==
  [][ (convEvent'.kind = "abort" /\ Unfinished(batches) = {})
        => /\ imagesMap' = imagesMap
           /\ imageOrder' = imageOrder
           /\ batches' = batches
           /\ abortController' = abortController
           /\ abortController' = Undefined
           /\ convEvent'.notified = 0 ]_vars

\* abort was called after the first batch had finished; the batch started
\* afterwards dispatched both its items and completed
C20_Witness ==
  /\ abortLog.idleAt = 1
  /\ Len(batches) = 2
  /\ Len(batches[2].items) = 2
  /\ batches[2].phase = "completed"
  /\ \A i \in 1..2 : RecordOf(batches[2].items[i]).status = "completed"

\* C22: when the codec call of a dispatched item rejects, the item's record
\* gets status 'error' with compressedSize 0 and compressedUrl '', and the
\* images listeners are notified.
C22_RejectionMarksItemAsError ==
  [][ convEvent'.kind = "reject"
        => LET r == RecordIn(imagesMap', batches[convEvent'.batch].items[convEvent'.pos])
           IN /\ r.status = "error"
              /\ r.compressedSize = 0
              /\ r.compressedUrl = EmptyUrl
              /\ convEvent'.notified >= 1 ]_vars

\* C23: a subscribed batch with concurrency at least 1 on which abort was not
\* called and none of whose codec calls rejected has, once no codec call is
\* outstanding, every item 'completed' and its observable completed, and the
\* abort controller is null.
C23_BatchRunsToCompletion ==
  \A b \in 1..Len(batches) :
    (/\ batches[b].phase # "created"
     /\ batches[b].concurrency >= 1
     /\ ~batches[b].aborted
     /\ Positions(batches[b], "rejected") = {}
     /\ Outstanding(batches[b]) = 0)
      => /\ batches[b].phase = "completed"
         /\ \A i \in 1..Len(batches[b].items) :
              RecordOf(batches[b].items[i]).status = "completed"
         /\ abortController = Undefined

\* a batch of three with concurrency 2 has completed: the last call resolved,
\* the observer was told and the controller is null
C23_Witness ==
  /\ convEvent.kind = "resolve"
  /\ convEvent.observer = << "next", "complete" >>
  /\ abortController = Undefined
  /\ \E b \in 1..Len(batches) :
       /\ Len(batches[b].items) = 3 /\ batches[b].concurrency = 2
       /\ batches[b].phase = "completed"
       /\ \A i \in 1..3 : RecordOf(batches[b].items[i]).status = "completed"

\* C25: the observable of a batch emits a value only when every item of the
\* batch is 'completed'.
C25_EmitsOnlyWhenAllCompleted ==
  [][ \A n \in 1..Len(convEvent'.observer) :
        convEvent'.observer[n] = "next"
          => \A i \in 1..Len(batches[convEvent'.batch].items) :
               RecordIn(imagesMap', batches[convEvent'.batch].items[i]).status = "completed"
    ]_vars

(***************************************************************************)
(* Properties of the records, the store and its listeners                  *)
(***************************************************************************)
\* C21: the status of a record changes only pending -> processing,
\* processing -> completed, processing -> error or pending -> error, whatever
\* the interleaving of batches, aborts, removals and subscriptions.
C21_StatusFollowsLifecycle ==
  [][ \A id \in MapKeys(imagesMap) \cap MapKeys(imagesMap') :
        RecordIn(imagesMap, id).status # RecordIn(imagesMap', id).status
          => << RecordIn(imagesMap, id).status, RecordIn(imagesMap', id).status >>
               \in { << "pending", "processing" >>, << "processing", "completed" >>,
                     << "processing", "error" >>, << "pending", "error" >> } ]_vars

\* C24: a call of convertFormat or compressImages with a concurrency below 1
\* raises an error instead of accepting the batch.
C24_InvalidConcurrencyIsRejected ==
  [][ convEvent'.returned = "pipeline"
        => batches'[convEvent'.batch].concurrency >= 1 ]_vars

\* ids of the records of a snapshot, in its order
IdsOf(snapshot) == [i \in 1..Len(snapshot) |-> snapshot[i].id]

\* C26: the snapshot lists the records in insertion order net of removals: an
\* accepted batch appends its records at the tail in ascending-size order, and
\* no other step (status update, removeImage, removeAllImages, clearCompleted)
\* adds a record or changes the relative order of the records that remain.
C26_SnapshotKeepsInsertionOrder ==
  [][ LET before == images(imagesMap, imageOrder)
          after == images(imagesMap', imageOrder')
      IN /\ \A i, j \in 1..Len(after) : i < j => after[i].id < after[j].id
         /\ IF convEvent'.returned = "pipeline"
              THEN LET added == batches'[convEvent'.batch].items
                   IN /\ IdsOf(after) = IdsOf(before) \o added
                      /\ \A i, j \in 1..Len(added) :
                           i < j => RecordIn(imagesMap', added[i]).originalSize
                                      <= RecordIn(imagesMap', added[j]).originalSize
              ELSE IdsOf(after)
                     = SelectSeq(IdsOf(before), LAMBDA id : id \in MapKeys(imagesMap')) ]_vars

\* a batch of two was accepted after a record of the first batch was removed:
\* the snapshot is the surviving record followed by the new ones, small first
C26_Witness ==
  /\ convEvent.returned = "pipeline"
  /\ convEvent.batch = 2
  /\ LET snapshot == images(imagesMap, imageOrder)
     IN /\ IdsOf(snapshot) = << 2, 3, 4 >>
        /\ snapshot[1].originalSize = 200
        /\ snapshot[2].originalSize = 100
        /\ snapshot[3].originalSize = 200

\* the blob URLs a turn revoked, in order, and those it created
RevokedUrls == [i \in 1..Len(SelectSeq(effects, LAMBDA e : e.kind = "revokeObjectURL")) |->
                  SelectSeq(effects, LAMBDA e : e.kind = "revokeObjectURL")[i].url]
CreatedUrls == [i \in 1..Len(SelectSeq(effects, LAMBDA e : e.kind = "createObjectURL")) |->
                  SelectSeq(effects, LAMBDA e : e.kind = "createObjectURL")[i].url]

\* the non-empty blob URLs of a record
UrlsOf(image) == { image.originalUrl, image.compressedUrl } \ { EmptyUrl }

\* how often x occurs in s
Occurrences(s, x) == Cardinality({ i \in 1..Len(s) : s[i] = x })

\* C28: clearCompleted removes exactly the 'completed' records, revokes exactly
\* their blob URLs (each once), and leaves every other record, and the relative
\* order of the others, unchanged.
C28_ClearCompletedRemovesOnlyCompleted ==
  [][ convEvent'.kind = "clearCompleted"
        => LET completed == { id \in MapKeys(imagesMap) :
                                RecordIn(imagesMap, id).status = "completed" }
               stale == UNION { UrlsOf(RecordIn(imagesMap, id)) : id \in completed }
           IN /\ MapKeys(imagesMap') = MapKeys(imagesMap) \ completed
              /\ \A id \in MapKeys(imagesMap') :
                   RecordIn(imagesMap', id) = RecordIn(imagesMap, id)
              /\ IdsOf(images(imagesMap', imageOrder'))
                   = SelectSeq(IdsOf(images(imagesMap, imageOrder)),
                               LAMBDA id : id \notin completed)
              /\ \A u \in stale : Occurrences(RevokedUrls', u) = 1
              /\ \A i \in 1..Len(RevokedUrls') : RevokedUrls'[i] \in stale
              /\ CreatedUrls' = << >> ]_vars

\* clearCompleted has removed a completed record (both its URLs are revoked)
\* from between records that stay: one failed, one still pending
C28_Witness ==
  /\ convEvent.kind = "clearCompleted"
  /\ Len(RevokedUrls) = 2
  /\ \E id \in MapKeys(imagesMap) : RecordOf(id).status = "error"
  /\ \E id \in MapKeys(imagesMap) : RecordOf(id).status = "pending"
  /\ \E i, j \in 1..Len(imageOrder) :
       i < j /\ imageOrder[i] < RevokedUrls[1][1] /\ RevokedUrls[1][1] < imageOrder[j]

\* positions of the effects of a kind in the most recent turn
EffectsOf(kind) == { i \in 1..Len(effects) : effects[i].kind = kind }

\* C27: removeImage(id) of a present record revokes each non-empty blob URL of
\* that record exactly once and no URL of another record, in the same turn and
\* before any listener is called; the snapshot the listeners get lacks the record.
C27_RemoveImageRevokesBeforeNotifying ==
  [][ (convEvent'.kind = "removeImage" /\ convEvent'.pos \in MapKeys(imagesMap))
        => LET removed == RecordIn(imagesMap, convEvent'.pos)
           IN /\ \A u \in UrlsOf(removed) : Occurrences(RevokedUrls', u) = 1
              /\ \A i \in 1..Len(RevokedUrls') : RevokedUrls'[i] \in UrlsOf(removed)
              /\ \A i \in EffectsOf("revokeObjectURL")', j \in EffectsOf("listener")' : i < j
              /\ \A j \in EffectsOf("listener")' :
                   /\ effects'[j].snapshot = images(imagesMap', imageOrder')
                   /\ removed.id \notin { effects'[j].snapshot[n].id :
                                            n \in 1..Len(effects'[j].snapshot) } ]_vars

\* a completed record was removed while another record stays and a listener is
\* registered: two URLs revoked, then the listener called
C27_Witness ==
  /\ convEvent.kind = "removeImage"
  /\ Len(RevokedUrls) = 2
  /\ RevokedUrls[1][1] = convEvent.pos
  /\ EffectsOf("listener") # {}
  /\ Len(images(imagesMap, imageOrder)) = 1

\* ids whose record differs between two Maps
ChangedIds(map, map2) ==
  { id \in MapKeys(map) \cup MapKeys(map2) : MapGet(map, id) # MapGet(map2, id) }

\* C29: an operation on an id that is not in the store is a no-op.  removeImage
\* of an absent id changes nothing, has no effect and notifies nobody.  The late
\* success or failure of an item whose record was removed adds no record and
\* creates or revokes no URL, and causes no notification: every notification
\* of that turn belongs to the dispatch of another item ('pending' record set
\* to 'processing'), one round of the listeners per dispatch.
C29_AbsentIdIsNoOp ==
  [][ /\ (convEvent'.kind = "removeImage" /\ convEvent'.pos \notin MapKeys(imagesMap))
        => /\ imagesMap' = imagesMap /\ imageOrder' = imageOrder
           /\ effects' = << >> /\ convEvent'.notified = 0
      /\ (/\ convEvent'.kind \in {"resolve", "reject"}
          /\ batches[convEvent'.batch].items[convEvent'.pos] \notin MapKeys(imagesMap))
        => LET dispatched == ChangedIds(imagesMap, imagesMap')
           IN /\ MapKeys(imagesMap') = MapKeys(imagesMap)
              /\ imageOrder' = imageOrder
              /\ CreatedUrls' = << >> /\ RevokedUrls' = << >>
              /\ \A id \in dispatched :
                   /\ id # batches[convEvent'.batch].items[convEvent'.pos]
                   /\ RecordIn(imagesMap', id)
                        = [RecordIn(imagesMap, id) EXCEPT !.status = "processing"]
                   /\ id \in UndispatchedIds(batches[convEvent'.batch])
              /\ convEvent'.notified = Cardinality(dispatched)
              /\ Cardinality(EffectsOf("listener")')
                   = Len(imagesListeners) * Cardinality(dispatched) ]_vars

\* the codec call of an item resolved for a live subscription after the
\* item's record had been removed, with a listener registered: nothing was
\* created and nobody was called
C29_Witness ==
  /\ convEvent.kind = "resolve"
  /\ convEvent.observer # << >>
  /\ batches[convEvent.batch].items[convEvent.pos] \notin MapKeys(imagesMap)
  /\ imagesListeners # << >>
  /\ imagesMap # << >>
  /\ effects = << >>

\* the snapshots a callback was called with in the most recent turn, in order
CallsOf(cb) ==
  LET mine == SelectSeq(effects, LAMBDA e : e.kind = "listener" /\ e.listener = cb)
  IN [i \in 1..Len(mine) |-> mine[i].snapshot]

\* two snapshots of the same records that differ in at most one of them
AtMostOneUpdate(s, s2) ==
  /\ IdsOf(s) = IdsOf(s2)
  /\ Cardinality({ i \in 1..Len(s) : s[i] # s2[i] }) <= 1

Computing(cs, k) ==
  { i \in 1..MaxCalls : /\ cs[i].op = "getImageDimensions"
                        /\ cs[i].pc \in {"metadata", "load"}
                        /\ getCacheKey(cs[i].file) = k }

\* C39: overlapping getImageDimensions calls are not de-duplicated.  A call for
\* a key that another call is still computing, and has not stored yet, starts
\* its own computation; every such computation that succeeds stores its result
\* when it settles, also when the other call has stored already, and the cache
\* then holds exactly one entry for the key, the one just stored.
C39_OverlappingCallsBothComputeAndStore ==
  [][ /\ \A i \in 1..MaxCalls :
           (/\ utilEvent'.kind = "call" /\ utilEvent'.slot = i
            /\ calls'[i].op = "getImageDimensions"
            /\ Computing(calls, getCacheKey(calls'[i].file)) # {}
            /\ ~MapHas(dimensionsCache, getCacheKey(calls'[i].file)))
             => i \in Computing(calls', getCacheKey(calls'[i].file))
      /\ \A i \in 1..MaxCalls :
           (/\ utilEvent'.kind \in {"metadata", "load"} /\ utilEvent'.slot = i
            /\ calls[i].op = "getImageDimensions"
            /\ Len(utilEvent'.returns) = 1
            /\ utilEvent'.returns[1].value # Undefined)
             => LET k == getCacheKey(calls[i].file)
                IN /\ Cardinality({ n \in 1..Len(dimensionsCache') :
                                      dimensionsCache'[n].key = k }) = 1
                   /\ dimensionsCache'[Len(dimensionsCache')]
                        = [key |-> k, value |-> utilEvent'.returns[1].value[1]] ]_vars

\* the call in slot 1 has stored the dimensions of a file while the call in
\* slot 2, started for the same key before that, is still loading the image
C39_Witness ==
  /\ utilEvent.kind = "load" /\ utilEvent.slot = 1
  /\ Len(utilEvent.returns) = 1
  /\ utilEvent.returns[1].key = getCacheKey(PngA)
  /\ utilEvent.returns[1].value # Undefined
  /\ MapHas(dimensionsCache, getCacheKey(PngA))
  /\ Computing(calls, getCacheKey(PngA)) = {2}
  /\ calls[2].pc = "load"

(***************************************************************************)
(* Further properties of the records, the store and its listeners          *)
(***************************************************************************)
\* C35: a record that is not 'completed' has compressedSize 0 and
\* compressedUrl '', and a 'completed' record has a non-empty compressedUrl.
C35_CompressedFieldsFollowStatus ==
  \A id \in MapKeys(imagesMap) :
    IF RecordOf(id).status = "completed"
      THEN RecordOf(id).compressedUrl # EmptyUrl
      ELSE RecordOf(id).compressedSize = 0 /\ RecordOf(id).compressedUrl = EmptyUrl

\* the records the codec was invoked for in the most recent turn, in order
InvokedIds ==
  [n \in 1..Len(SelectSeq(effects, LAMBDA e : e.kind = "compressImage")) |->
     SelectSeq(effects, LAMBDA e : e.kind = "compressImage")[n].id]

\* the batch an id belongs to
BatchIn(bs, id) ==
  bs[CHOOSE b \in 1..Len(bs) : \E i \in 1..Len(bs[b].items) : bs[b].items[i] = id]

\* C37: within a batch items are dispatched in non-decreasing order of size.
\* When the codec is invoked for an item, no item of the same batch with a
\* strictly smaller originalSize is 'pending': none that is still 'pending'
\* after the turn, and none that was dispatched later in the same turn.
C37_DispatchInSizeOrder ==
  [][ \A n \in 1..Len(InvokedIds') :
        LET id == InvokedIds'[n]
            size == RecordIn(imagesMap', id).originalSize
            b == BatchIn(batches', id)
        IN /\ RecordIn(imagesMap', id).status = "processing"
           /\ \A i \in 1..Len(b.items) :
                RecordIn(imagesMap', b.items[i]).status = "pending"
                  => RecordIn(imagesMap', b.items[i]).originalSize >= size
           /\ \A later \in (n + 1)..Len(InvokedIds') :
                RecordIn(imagesMap', InvokedIds'[later]).originalSize >= size ]_vars

\* a batch of three was subscribed with concurrency 2: the two small files are
\* being converted, in the order of the batch, and the large one is pending
C37_Witness ==
  /\ convEvent.kind = "subscribe"
  /\ Len(InvokedIds) = 2
  /\ RecordOf(InvokedIds[1]).originalSize = 100
  /\ RecordOf(InvokedIds[2]).originalSize = 100
  /\ \E id \in MapKeys(imagesMap) :
       RecordOf(id).status = "pending" /\ RecordOf(id).originalSize = 200

\* C33: ngOnDestroy revokes every non-empty blob URL of every record of the
\* store (and nothing else), leaves the store empty and the listener array
\* empty, and calls no listener; a listener that was registered at teardown is
\* never called afterwards, whatever settles or is called later.
C33_TeardownReleasesAndSilences ==
  [][ /\ convEvent'.kind = "ngOnDestroy"
        => LET held == UNION { UrlsOf(RecordIn(imagesMap, id)) : id \in MapKeys(imagesMap) }
           IN /\ \A u \in held : Occurrences(RevokedUrls', u) = 1
              /\ \A i \in 1..Len(RevokedUrls') : RevokedUrls'[i] \in held
              /\ imagesMap' = << >> /\ imageOrder' = << >>
              /\ imagesListeners' = << >>
              /\ EffectsOf("listener")' = {}
      /\ \A cb \in Callbacks : listenerLife[cb] = "cleared" => CallsOf(cb)' = << >> ]_vars

\* after a teardown with callback 1 registered and a batch running, a codec
\* call of the batch resolved for the live subscription: the store is empty
\* and nobody was called
C33_Witness ==
  /\ convEvent.kind = "resolve"
  /\ convEvent.observer # << >>
  /\ listenerLife[1] = "cleared"
  /\ imagesMap = << >> /\ imagesListeners = << >>
  /\ EffectsOf("listener") = {}

\* C36: listeners never see a partially applied operation.  An accepted batch
\* of n files sends one notification, whose snapshot ends with all n new
\* records as 'pending'; removeAllImages sends one notification, with the empty
\* list; clearCompleted sends one notification, with no 'completed' record.
C36_NotificationsAreAtomic ==
  [][ \A cb \in Callbacks :
        (listenerLife[cb] = "active" /\ listenerLife'[cb] = "active")
          => LET called == CallsOf(cb)'
             IN /\ convEvent'.returned = "pipeline"
                  => LET items == batches'[convEvent'.batch].items
                     IN /\ Len(called) = 1
                        /\ SubSeq(IdsOf(called[1]), Len(called[1]) - Len(items) + 1,
                                  Len(called[1])) = items
                        /\ \A i \in 1..Len(called[1]) :
                             called[1][i].id \in { items[n] : n \in 1..Len(items) }
                               => called[1][i].status = "pending"
                /\ convEvent'.kind = "removeAllImages" => called = << << >> >>
                /\ convEvent'.kind = "clearCompleted"
                  => /\ Len(called) = 1
                     /\ called[1] = SelectSeq(images(imagesMap, imageOrder),
                                              LAMBDA img : img.status # "completed") ]_vars

\* removeAllImages emptied a store of two records with callback 1 registered:
\* the one call callback 1 got carried the empty list
C36_Witness ==
  /\ convEvent.kind = "removeAllImages"
  /\ Len(RevokedUrls) >= 2
  /\ { RevokedUrls[i][1] : i \in 1..Len(RevokedUrls) } = {1, 2}
  /\ listenerLife[1] = "active"
  /\ CallsOf(1) = << << >> >>

\* C34: when a file of the array has a MIME type outside image/jpeg,
\* image/png, image/webp, image/gif, image/avif, size 0 or a size above
\* 100 MB, convertFormat and compressImages return an observable that errors;
\* the call adds no record, creates no blob URL, notifies no listener and
\* leaves the abort controller, and the batches, as they are.
C34_InvalidFilesAreRejected ==
  [][ (/\ convEvent'.kind \in {"convertFormat", "compressImages"}
       /\ \E i \in 1..Len(convEvent'.files) :
            \/ convEvent'.files[i].type
                 \notin {"image/jpeg", "image/png", "image/webp", "image/gif", "image/avif"}
            \/ convEvent'.files[i].size = 0
            \/ convEvent'.files[i].size > 100 * 1024 * 1024)
        => /\ convEvent'.returned = "throwError"
           /\ imagesMap' = imagesMap /\ imageOrder' = imageOrder
           /\ batches' = batches /\ issued' = issued
           /\ effects' = << >> /\ convEvent'.notified = 0
           /\ abortController' = abortController ]_vars

\* a call with a file above 100 MB was refused while a batch is running: the
\* controller of that batch is still in place
C34_Witness ==
  /\ convEvent.kind \in {"convertFormat", "compressImages"}
  /\ convEvent.returned = "throwError"
  /\ convEvent.files = << Small, Huge >>
  /\ abortController # Undefined
  /\ \E b \in 1..Len(batches) : batches[b].phase = "running"

\* the non-empty blob URLs of the records in the store
StoredUrls == UNION { UrlsOf(RecordOf(id)) : id \in MapKeys(imagesMap) }

\* C38: when every returned observable is subscribed at most once, the blob
\* URLs created and not yet revoked are exactly the non-empty originalUrl and
\* compressedUrl values of the records in the store, after any sequence of
\* batches, aborts, removeImage, removeAllImages, clearCompleted and ngOnDestroy.
C38_LiveUrlsAreTheStoredUrls == liveUrls = StoredUrls

\* clearCompleted has released the two URLs of a completed record while
\* another record, with its URL, stays in the store
C38_Witness ==
  /\ convEvent.kind = "clearCompleted"
  /\ Len(RevokedUrls) = 2
  /\ liveUrls # {}
  /\ Cardinality(MapKeys(imagesMap)) = 2

(***************************************************************************)
(* Properties of the images listeners under callbacks that call back       *)
(***************************************************************************)
\* C31: unsubscribing one images listener never makes another registered
\* listener miss a notification, also when the unsubscribe function is invoked
\* from inside a callback during the delivery: an operation that notifies calls
\* every listener that is registered before and after it.
C31_UnsubscribeNeverSkipsAnother ==
  [][ \A cb \in Callbacks :
        ( /\ convEvent'.notified > 0
          /\ indexOf(imagesListeners, cb) > 0
          /\ indexOf(imagesListeners', cb) > 0 )
          => CallsOf(cb)' # << >> ]_vars

\* C32: after every operation, the snapshot most recently delivered to a
\* registered listener is the current images list, also when a callback itself
\* mutates the store.
C32_LastSnapshotIsCurrent ==
  [][ \A cb \in Callbacks :
        ( /\ indexOf(imagesListeners', cb) > 0
          /\ CallsOf(cb)' # << >> )
          => CallsOf(cb)'[Len(CallsOf(cb)')] = images(imagesMap', imageOrder') ]_vars

=============================================================================
